---- MODULE Spec2Model ----
(***************************************************************************)
(* Wave Type Tool: grid layout cache, spatial phases, transform pipeline   *)
(* (src/src/main.js, src/src/transforms/index.js) and the collision        *)
(* detector / resolver (src/src/physics/SpatialHash.js,                    *)
(* src/unnamed/part_008).                                                  *)
(*                                                                         *)
(* Numbers.  JavaScript doubles are modelled in fixed point:               *)
(*   - dimensionless values (scale, opacity, curve outputs, normals,       *)
(*     progress) in thousandths            (One = 1000),                   *)
(*   - angles and phases in milliradians   (Pi = 3142),                    *)
(*   - lengths and positions in hundredths of a pixel (Px = 100),          *)
(*   - the clock in thousandths of a clock unit.                           *)
(* Division rounds towards minus infinity.  Math.sin, Math.sqrt, atan2 and *)
(* Math.pow(2, .) are fixed-point approximations with the same range, sign *)
(* and zeros as the library functions.                                     *)
(***************************************************************************)
EXTENDS Integers, Sequences, FiniteSets, TLC

One == 1000
Px == 100
Pi == 3142
TwoPi == 6283

Abs(a) == IF a < 0 THEN -a ELSE a
Min(a, b) == IF a < b THEN a ELSE b
Max(a, b) == IF a > b THEN a ELSE b
\* Math.sqrt on non-negative integers: floor of the square root
RECURSIVE SqrtSearch(_, _, _)
SqrtSearch(n, lo, hi) ==
  IF lo >= hi THEN lo
  ELSE LET mid == (lo + hi + 1) \div 2
       IN IF mid * mid <= n THEN SqrtSearch(n, mid, hi) ELSE SqrtSearch(n, lo, mid - 1)

ISqrt(n) == SqrtSearch(n, 0, Min(n, 46340))

\* Math.sin, argument in milliradians, result in thousandths.
\* Bhaskara's rational approximation on [0, pi], odd and 2*pi-periodic.
SinHalf(x) ==
  LET p == (x * (Pi - x)) \div 100
  IN  (16000 * p) \div (493608 - 4 * p)

Sin(a) ==
  LET x == a % TwoPi
  IN  IF x <= Pi THEN SinHalf(x) ELSE -SinHalf(Min(x - Pi, Pi))

\* Math.atan2(y, x) in milliradians; atan2(0, 0) = 0 as in JavaScript
AtanUnit(z) == (z * (785 + (273 * (One - z)) \div One)) \div One

Atan2(y, x) ==
  IF x = 0 /\ y = 0 THEN 0
  ELSE LET ax == Abs(x)
           ay == Abs(y)
           base == IF ay <= ax THEN AtanUnit((ay * One) \div ax)
                   ELSE 1571 - AtanUnit((ax * One) \div ay)
           quad == IF x >= 0 THEN base ELSE Pi - base
       IN  IF y >= 0 THEN quad ELSE -quad

\* Math.pow(2, -e) for e >= 0 in thousandths, result in thousandths
RECURSIVE Halve(_, _)
Halve(v, n) == IF n = 0 THEN v ELSE Halve(v \div 2, n - 1)

Pow2Neg(e) == Halve(One - (e % One) \div 2, e \div One)

(***************************************************************************)
(* config.js: CURVES and EASINGS                                           *)
(***************************************************************************)
CurveNames == {"sine", "doubleSinusoid", "bounce", "elastic", "snap", "smooth", "noise"}

\* angle * k for a factor k in thousandths
ScaleAngle(t, k) == (t \div One) * k + ((t % One) * k) \div One

\* n - Math.floor(n)
Frac(n) == n % One

\* x = (Math.sin(t) + 1) / 2
Unit01(t) == (Sin(t) + One) \div 2

CURVES(name, t, intensity) ==
  CASE name = "doubleSinusoid" ->
         (Sin(t) + (Sin(ScaleAngle(t, 2300)) * 3) \div 10 + One) \div 2
    [] name = "bounce" ->
         LET x == Unit01(t)
         IN  (Abs(Sin((x * 7854) \div One)) * x) \div One
    [] name = "elastic" ->
         LET x == Unit01(t)
         IN  (Pow2Neg(10 * x) * Sin(((10 * x - 750) * 2094) \div One)) \div One + One
    [] name = "snap" -> IF Sin(t) > 0 THEN One ELSE 0
    [] name = "smooth" ->
         LET x == Unit01(t)
         IN  IF x < 500 THEN (2 * x * x) \div One
             ELSE One - (((2 * One - 2 * x) * (2 * One - 2 * x)) \div One) \div 2
    [] name = "noise" ->
         LET raw == Frac(Sin(ScaleAngle(t, 44223)) * 43758)
         IN  500 + ((raw - 500) * intensity) \div One
    [] OTHER -> Unit01(t)

EasingNames == {"linear", "easeIn", "easeOut", "easeInOut", "easeInQuad", "easeOutQuad",
                "easeInOutQuad", "easeInCubic", "easeOutCubic", "easeInOutCubic",
                "easeInQuart", "easeOutQuart", "easeInOutQuart"}

Sq(t) == (t * t) \div One
Cube(t) == (Sq(t) * t) \div One
Quart(t) == (Sq(t) * Sq(t)) \div One

EASINGS(name, t) ==
  CASE name \in {"easeIn", "easeInQuad"} -> Sq(t)
    [] name \in {"easeOut", "easeOutQuad"} -> (t * (2 * One - t)) \div One
    [] name \in {"easeInOut", "easeInOutQuad"} ->
         IF t < 500 THEN 2 * Sq(t) ELSE ((4 * One - 2 * t) * t) \div One - One
    [] name = "easeInCubic" -> Cube(t)
    [] name = "easeOutCubic" -> Cube(t - One) + One
    [] name = "easeInOutCubic" ->
         IF t < 500 THEN 4 * Cube(t)
         ELSE ((t - One) * Sq(2 * t - 2 * One)) \div One + One
    [] name = "easeInQuart" -> Quart(t)
    [] name = "easeOutQuart" -> One - Quart(t - One)
    [] name = "easeInOutQuart" ->
         IF t < 500 THEN 8 * Quart(t) ELSE One - 8 * Quart(t - One)
    [] OTHER -> t

(***************************************************************************)
(* main.js: parseText, createGrid                                          *)
(***************************************************************************)
IsSpace(c) == c = " "

\* text.split(/\s+/).filter(w => w.length > 0): a word is a maximal run of
\* non-space characters, kept as the sequence of its characters
RECURSIVE SplitWords(_, _, _)
SplitWords(text, cur, acc) ==
  IF text = <<>> THEN (IF cur = <<>> THEN acc ELSE Append(acc, cur))
  ELSE IF IsSpace(Head(text))
       THEN SplitWords(Tail(text), <<>>, IF cur = <<>> THEN acc ELSE Append(acc, cur))
       ELSE SplitWords(Tail(text), Append(cur, Head(text)), acc)

\* text.split(''): every character is a unit of its own
SplitChars(text) == [i \in 1..Len(text) |-> <<text[i]>>]

parseText(text, mode) ==
  IF mode = "word" THEN SplitWords(text, <<>>, <<>>) ELSE SplitChars(text)

NoChar == <<>>

\* 'repeat' that stops at the end of the input instead of starting over
CellChar_NoWrap(chars, params, row, col) ==
  LET charIndex == row * params.columns + col
  IN  IF params.textDistribution = "split-word"
      THEN (IF col = 0 /\ row < Len(chars) THEN chars[row + 1] ELSE NoChar)
      ELSE (IF charIndex < Len(chars) THEN chars[charIndex + 1] ELSE NoChar)

\* 'split-letter' that starts over at the end of the input
CellChar_SplitWraps(chars, params, row, col) ==
  LET charIndex == row * params.columns + col
  IN  IF params.textDistribution = "split-word"
      THEN (IF col = 0 /\ row < Len(chars) THEN chars[row + 1] ELSE NoChar)
      ELSE (IF Len(chars) = 0 THEN NoChar ELSE chars[(charIndex % Len(chars)) + 1])

\* 'split-word' that puts the word of a row into every column
CellChar_WordEveryColumn(chars, params, row, col) ==
  LET charIndex == row * params.columns + col
  IN  IF params.textDistribution = "split-letter"
      THEN (IF charIndex < Len(chars) THEN chars[charIndex + 1] ELSE NoChar)
      ELSE IF params.textDistribution = "split-word"
      THEN (IF row < Len(chars) THEN chars[row + 1] ELSE NoChar)
      ELSE (IF Len(chars) = 0 THEN NoChar ELSE chars[(charIndex % Len(chars)) + 1])

\* the unit createGrid assigns to cell number charIndex = row * columns + col
CellChar(chars, params, row, col) ==
  LET charIndex == row * params.columns + col
  IN  IF params.textDistribution = "split-letter"
      THEN (IF charIndex < Len(chars) THEN chars[charIndex + 1] ELSE NoChar)
      ELSE IF params.textDistribution = "split-word"
      THEN (IF col = 0 /\ row < Len(chars) THEN chars[row + 1] ELSE NoChar)
      ELSE (IF Len(chars) = 0 THEN NoChar ELSE chars[(charIndex % Len(chars)) + 1])

Undefined == <<>>

\* an item that records its column as its row and its row as its column
GridItem_SwappedCell(char, params, row, col, cellWidth, cellHeight) ==
  [char |-> char,
   x |-> col * cellWidth + cellWidth \div 2 + params.tracking * Px,
   y |-> row * cellHeight + cellHeight \div 2 + params.lineSpacing * Px,
   row |-> col, col |-> row,
   totalRows |-> params.rows, totalCols |-> params.columns,
   cellWidth |-> cellWidth, cellHeight |-> cellHeight,
   spatialPhase |-> Undefined,
   transformed |-> Undefined,
   collisionOffset |-> Undefined]

GridItem(char, params, row, col, cellWidth, cellHeight) ==
  [char |-> char,
   x |-> col * cellWidth + cellWidth \div 2 + params.tracking * Px,
   y |-> row * cellHeight + cellHeight \div 2 + params.lineSpacing * Px,
   row |-> row, col |-> col,
   totalRows |-> params.rows, totalCols |-> params.columns,
   cellWidth |-> cellWidth, cellHeight |-> cellHeight,
   spatialPhase |-> Undefined,
   transformed |-> Undefined,
   collisionOffset |-> Undefined]

RECURSIVE GridCells(_, _, _, _, _, _)
GridCells(chars, params, cellWidth, cellHeight, k, acc) ==
  IF k >= params.rows * params.columns THEN acc
  ELSE LET row == k \div params.columns
           col == k % params.columns
           char == CellChar(chars, params, row, col)
       IN  GridCells(chars, params, cellWidth, cellHeight, k + 1,
                     IF char # NoChar
                     THEN Append(acc, GridItem(char, params, row, col, cellWidth, cellHeight))
                     ELSE acc)

\* width, height in pixels; with zero rows or columns the loops visit no cell
createGrid(chars, params, width, height) ==
  IF params.columns <= 0 \/ params.rows <= 0 THEN <<>>
  ELSE GridCells(chars, params, (width * Px) \div params.columns,
                 (height * Px) \div params.rows, 0, <<>>)

(***************************************************************************)
(* transforms/index.js: getSpatialPhase                                    *)
(***************************************************************************)
\* (n - 1 || 1)
OrOne(n) == IF n = 0 THEN 1 ELSE n

\* a % 1 on doubles: the sign follows the dividend
JsMod1(a) == IF a >= 0 THEN a % One ELSE -((-a) % One)

LinearPosition(item, linearDirection) ==
  CASE linearDirection = "vertical" ->
         (item.row * One) \div OrOne(item.totalRows - 1)
    [] linearDirection = "diagonal" ->
         ((item.row + item.col) * One) \div OrOne((item.totalRows - 1) + (item.totalCols - 1))
    [] OTHER -> (item.col * One) \div OrOne(item.totalCols - 1)

\* the normalization of case 'wave' with the horizontal and the vertical
\* direction exchanged
WavePosition_Transposed(item, linearDirection) ==
  CASE linearDirection = "vertical" ->
         (item.col * One) \div OrOne(item.totalCols - 1)
    [] linearDirection = "diagonal" ->
         ((item.row + item.col) * One) \div OrOne((item.totalRows - 1) + (item.totalCols - 1))
    [] OTHER -> (item.row * One) \div OrOne(item.totalRows - 1)

\* case 'wave' of the switch
WavePosition(item, linearDirection) ==
  CASE linearDirection = "vertical" ->
         (item.row * One) \div OrOne(item.totalRows - 1)
    [] linearDirection = "diagonal" ->
         ((item.row + item.col) * One) \div OrOne((item.totalRows - 1) + (item.totalCols - 1))
    [] OTHER -> (item.col * One) \div OrOne(item.totalCols - 1)

\* distances from the grid centre, in half cells (centerRow = (totalRows - 1) / 2)
CenterDist(item) ==
  LET dr == 2 * item.row - (item.totalRows - 1)
      dc == 2 * item.col - (item.totalCols - 1)
  IN  ISqrt((dr * dr + dc * dc) * One * One)

MaxCenterDist(item) ==
  LET cr == item.totalRows - 1
      cc == item.totalCols - 1
      d == ISqrt((cr * cr + cc * cc) * One * One)
  IN  IF d = 0 THEN 2 * One ELSE d

CenterOutPosition(item, linearDirection) ==
  LET cr == item.totalRows - 1
      cc == item.totalCols - 1
  IN  CASE linearDirection = "horizontal" ->
             (Abs(2 * item.col - cc) * One) \div (IF cc = 0 THEN 2 ELSE cc)
        [] linearDirection = "vertical" ->
             (Abs(2 * item.row - cr) * One) \div (IF cr = 0 THEN 2 ELSE cr)
        [] OTHER -> (CenterDist(item) * One) \div MaxCenterDist(item)

SpiralPosition(item, spiralDensity) ==
  LET angle == Atan2(2 * item.row - (item.totalRows - 1), 2 * item.col - (item.totalCols - 1))
      normalizedAngle == ((angle * One) \div Pi + One) \div 2
      normalizedRadius == (CenterDist(item) * One) \div MaxCenterDist(item)
  IN  JsMod1(normalizedAngle + ((normalizedRadius * spiralDensity) \div One) \div 2)

RandomPosition(item) ==
  LET seed == item.row * 127100 + item.col * 311700
  IN  Frac(Sin(seed) * 43758)

getSpatialPhase(item, params) ==
  LET normalizedPosition ==
        CASE params.sequencePattern = "linear" -> LinearPosition(item, params.linearDirection)
          [] params.sequencePattern = "centerOut" -> CenterOutPosition(item, params.linearDirection)
          [] params.sequencePattern = "wave" -> WavePosition(item, params.linearDirection)
          [] params.sequencePattern = "spiral" -> SpiralPosition(item, params.spiralDensity)
          [] params.sequencePattern = "random" -> RandomPosition(item)
          [] OTHER -> (item.col * One) \div OrOne(item.totalCols - 1)
      rowOffset == (((item.row * One) \div OrOne(item.totalRows - 1)) * params.rowPhaseOffset) \div One
      colOffset == (((item.col * One) \div OrOne(item.totalCols - 1)) * params.colPhaseOffset) \div One
  IN  ((normalizedPosition + rowOffset + colOffset) * params.waveCycles * TwoPi) \div One

(***************************************************************************)
(* transforms/index.js: noise, applyTransforms                             *)
(***************************************************************************)
\* pseudo-noise of transforms/index.js: arguments x, y in thousandths given
\* as the angle they contribute, z in thousandths
noise(xAngle, yAngle, z) ==
  Frac(Sin(xAngle + yAngle + ScaleAngle(z, 37719)) * 43758)

\* item.spatialPhase ?? getSpatialPhase(item, params)
PhaseOf(item, params) ==
  IF item.spatialPhase # Undefined THEN item.spatialPhase[1] ELSE getSpatialPhase(item, params)

\* t = time * 0.05 * params.globalSpeed, in milliradians
GlobalT(time, params) == (time * params.globalSpeed) \div 20000

(***************************************************************************)
(* The doubles of the scale and opacity arithmetic, at a reduced width.    *)
(* The finite values reach from -DoubleMax to DoubleMax (Number.MAX_VALUE). *)
(* A result beyond them by less than HalfUlp rounds back to the largest    *)
(* finite value, as MAX_VALUE + 0.3 does; any other is an infinity.  NaN   *)
(* is what 0 * Infinity and Infinity - Infinity give, and every comparison *)
(* with it is false.                                                       *)
(***************************************************************************)
DoubleMax == 100000000
HalfUlp == 10000
Infinity == DoubleMax + HalfUlp
NaN == Infinity + 1

isNaN(v) == v = NaN
isFinite(v) == -DoubleMax <= v /\ v <= DoubleMax

Overflowed(v) ==
  IF isFinite(v) THEN v
  ELSE IF v > 0 THEN (IF v - DoubleMax < HalfUlp THEN DoubleMax ELSE Infinity)
  ELSE (IF -v - DoubleMax < HalfUlp THEN -DoubleMax ELSE -Infinity)

\* a + b
Plus(a, b) ==
  IF isNaN(a) \/ isNaN(b) THEN NaN
  ELSE IF isFinite(a) /\ isFinite(b) THEN Overflowed(a + b)
  ELSE IF isFinite(a) THEN b
  ELSE IF isFinite(b) \/ a = b THEN a
  ELSE NaN

\* a - b
Minus(a, b) == IF isNaN(b) THEN NaN ELSE Plus(a, -b)

\* a * b for a finite factor a
Times(a, b) ==
  IF isNaN(b) THEN NaN
  ELSE IF isFinite(b) THEN Overflowed((b \div One) * a + ((b % One) * a) \div One)
  ELSE IF a = 0 THEN NaN
  ELSE IF a > 0 THEN b ELSE -b

\* Math.max(a, b), Math.min(a, b)
MathMax(a, b) == IF isNaN(a) \/ isNaN(b) THEN NaN ELSE Max(a, b)
MathMin(a, b) == IF isNaN(a) \/ isNaN(b) THEN NaN ELSE Min(a, b)

\* a <= b
LessEq(a, b) == ~isNaN(a) /\ ~isNaN(b) /\ a <= b

ScaleChannel(item, time, params) ==
  IF params.scaleEnabled
  THEN LET normalized == CURVES(params.scaleCurve, GlobalT(time, params) + PhaseOf(item, params), 300)
       IN  MathMax(10, Plus(params.scaleMin,
                            Times(normalized, Minus(params.scaleMax, params.scaleMin))))
  ELSE One

OpacityChannel(item, time, params) ==
  IF params.opacityEnabled
  THEN LET normalized == CURVES(params.opacityCurve, GlobalT(time, params) + PhaseOf(item, params), 300)
       IN  MathMax(0, MathMin(One, Plus(params.opacityMin,
                                        Times(normalized,
                                              Minus(params.opacityMax, params.opacityMin)))))
  ELSE One

\* easing applied to the [0,1]-mapped sine of the angle, re-centred to [-pi, pi]
EasedAngle(angle, params) ==
  LET normalizedTime == (Sin(angle) + One) \div 2
      easedTime == EASINGS(params.positionEasing, normalizedTime)
  IN  ((easedTime * 2 - One) * Pi) \div One

\* waveX (axis = "x") and waveY (axis = "y"), in [-1, 1] for curves in [0, 1]
Wave(axis, item, time, params) ==
  LET tWithPhase == GlobalT(time, params) + PhaseOf(item, params)
      frequency == IF params.positionFrequency = 0 THEN One ELSE params.positionFrequency
      angle == IF axis = "x" THEN tWithPhase ELSE ScaleAngle(tWithPhase, frequency)
      normalized == CURVES(params.positionCurve, EasedAngle(angle, params),
                           params.positionNoiseIntensity)
  IN  normalized * 2 - One

CanvasWidthOf(item) == item.totalCols * item.cellWidth
CanvasHeightOf(item) == item.totalRows * item.cellHeight

AmplitudeMultiplier(item, params) ==
  IF params.positionOrigin = "off" THEN One
  ELSE LET centerX == CanvasWidthOf(item) \div 2
           centerY == CanvasHeightOf(item) \div 2
           distFromCenterX == ((item.x - centerX) * One) \div centerX
           distFromCenterY == ((item.y - centerY) * One) \div centerY
           distFromCenter == ISqrt(distFromCenterX * distFromCenterX
                                   + distFromCenterY * distFromCenterY)
           normalizedDist == Min((distFromCenter * One) \div 1414, One)
           raw == CASE params.positionOrigin = "center" -> normalizedDist
                    [] params.positionOrigin = "edges" -> One - normalizedDist
                    [] params.positionOrigin = "side0to1" ->
                         (item.x * One) \div CanvasWidthOf(item)
                    [] params.positionOrigin = "side1to0" ->
                         One - (item.x * One) \div CanvasWidthOf(item)
                    [] OTHER -> One
       IN  EASINGS(params.positionEasing, raw)

\* a pixel count in length units; the ends of the finite range stay the ends
Length(v) ==
  IF isFinite(v) /\ Abs(v) < DoubleMax \div Px THEN v * Px
  ELSE IF isFinite(v) THEN (IF v > 0 THEN DoubleMax ELSE -DoubleMax)
  ELSE v

\* (a / d) * b for a finite length b and a positive divisor d
Product(a, b, d) ==
  IF isNaN(a) THEN NaN
  ELSE IF ~isFinite(a) THEN (IF b = 0 THEN NaN ELSE IF b > 0 THEN a ELSE -a)
  ELSE IF b # 0 /\ Abs(a) \div d > Infinity \div Abs(b)
  THEN (IF (a > 0) = (b > 0) THEN Infinity ELSE -Infinity)
  ELSE Overflowed((a \div d) * b + ((a % d) * b) \div d)

\* the amplitude of one axis before the containment clamp, in length units
RawAmplitude(axis, item, params) ==
  LET configured == IF axis = "x" THEN params.positionAmplitudeX ELSE params.positionAmplitudeY
      extent == IF axis = "x" THEN CanvasWidthOf(item) ELSE CanvasHeightOf(item)
      mult == AmplitudeMultiplier(item, params)
  IN  IF params.positionMode = "travel"
      THEN Times(mult, Product(configured, extent, 100))
      ELSE Times(mult, Length(configured))

\* amplitude = Math.min(amplitude, Math.max(0, cell / 2 - fontSize / 2))
Amplitude(axis, item, params) ==
  LET amp == RawAmplitude(axis, item, params)
      cell == IF axis = "x" THEN item.cellWidth ELSE item.cellHeight
      maxAmp == cell \div 2 - (params.fontSize * Px) \div 2
  IN  IF params.containToCell /\ item.cellWidth # 0 /\ item.cellHeight # 0
      THEN MathMin(amp, Max(0, maxAmp))
      ELSE amp

PositionOffset(axis, item, time, params) ==
  IF params.positionEnabled
  THEN Times(Wave(axis, item, time, params), Amplitude(axis, item, params))
  ELSE 0

JitterOffset(axis, item, time, params) ==
  IF params.jitterEnabled
  THEN LET jitterTime == (time * params.jitterSpeed) \div 100000
           shift == IF axis = "x" THEN 0 ELSE 1
           n == noise(item.col * 6495 + shift * 1298980,
                      item.row * 39117 + shift * 7823300, jitterTime)
       IN  Times(n * 2 - One, Length(params.jitterAmount))
  ELSE 0

\* { x: item.x + offsetX, y: item.y + offsetY, scale, opacity }: the object
\* has no rotation key, so a read of transformed.rotation gives undefined
applyTransforms(item, index, time, params) ==
  [x |-> Plus(item.x, Plus(PositionOffset("x", item, time, params),
                           JitterOffset("x", item, time, params))),
   y |-> Plus(item.y, Plus(PositionOffset("y", item, time, params),
                           JitterOffset("y", item, time, params))),
   scale |-> ScaleChannel(item, time, params),
   opacity |-> OpacityChannel(item, time, params),
   rotation |-> Undefined]

(***************************************************************************)
(* physics/SpatialHash.js: SpatialHash                                     *)
(* A cell key `${col},${row}` is the pair <<col, row>>; the cell table is  *)
(* the set of <<key, index>> pairs (index is in the Set stored under key). *)
(***************************************************************************)
RECURSIVE KeyRun(_, _, _, _, _, _)
KeyRun(col, row, maxCol, minRow, maxRow, acc) ==
  IF col > maxCol THEN acc
  ELSE IF row > maxRow THEN KeyRun(col + 1, minRow, maxCol, minRow, maxRow, acc)
  ELSE KeyRun(col, row + 1, maxCol, minRow, maxRow, Append(acc, <<col, row>>))

\* a hash that files an item under the cell of its centre only
getCellKeys_CenterOnly(cellSize, x, y, radius) == <<<<x \div cellSize, y \div cellSize>>>>

\* the keys in the order in which the nested loops add them
getCellKeys(cellSize, x, y, radius) ==
  LET minCol == (x - radius) \div cellSize
      maxCol == (x + radius) \div cellSize
      minRow == (y - radius) \div cellSize
      maxRow == (y + radius) \div cellSize
  IN  KeyRun(minCol, minRow, maxCol, minRow, maxRow, <<>>)

SeqRange(seq) == {seq[k] : k \in 1..Len(seq)}

insert(cells, cellSize, index, x, y, radius) ==
  cells \cup {<<key, index>> : key \in SeqRange(getCellKeys(cellSize, x, y, radius))}

RECURSIVE AppendNew(_, _)
AppendNew(acc, indices) ==
  IF indices = {} THEN acc
  ELSE LET m == CHOOSE a \in indices : \A b \in indices : a <= b
       IN  AppendNew(IF m \in SeqRange(acc) THEN acc ELSE Append(acc, m), indices \ {m})

RECURSIVE QueryRun(_, _, _, _)
QueryRun(cells, keys, k, acc) ==
  IF k > Len(keys) THEN acc
  ELSE QueryRun(cells, keys, k + 1,
                AppendNew(acc, {p[2] : p \in {q \in cells : q[1] = keys[k]}}))

\* a query that looks into the cell of the query centre only
query_CenterCell(cells, cellSize, x, y, radius) ==
  QueryRun(cells, <<<<x \div cellSize, y \div cellSize>>>>, 1, <<>>)

\* the candidate Set in its iteration order (first insertion)
query(cells, cellSize, x, y, radius) ==
  QueryRun(cells, getCellKeys(cellSize, x, y, radius), 1, <<>>)

\* new SpatialHash(cellSize, canvasWidth, canvasHeight); cols and rows are
\* Math.ceil of the canvas extent over the cell size
SpatialHash(cellSize, canvasWidth, canvasHeight) ==
  [cellSize |-> cellSize, canvasWidth |-> canvasWidth, canvasHeight |-> canvasHeight,
   cols |-> -((-canvasWidth) \div cellSize), rows |-> -((-canvasHeight) \div cellSize),
   cells |-> {}]

(***************************************************************************)
(* physics/SpatialHash.js: CollisionDetector                               *)
(* Item indices are those of the JavaScript array (from 0); the wall names *)
(* 'left', 'right', 'top', 'bottom' held in indexB are negative numbers.   *)
(***************************************************************************)
Left == -1
Right == -2
Top == -3
Bottom == -4

HasTransform(item) == item.transformed # Undefined

\* (params.fontSize * 0.45) * (item.transformed?.scale || 1)
getItemRadius(item, params) ==
  LET scale == IF HasTransform(item) /\ item.transformed[1].scale # 0
               THEN item.transformed[1].scale ELSE One
  IN  (params.fontSize * 45 * scale) \div One

HashCellSize(params) == params.fontSize * 3 * Px

RECURSIVE InsertAll(_, _, _, _)
InsertAll(items, params, i, cells) ==
  IF i >= Len(items) THEN cells
  ELSE LET item == items[i + 1]
       IN  InsertAll(items, params, i + 1,
             IF HasTransform(item)
             THEN insert(cells, HashCellSize(params), i, item.transformed[1].x,
                         item.transformed[1].y, getItemRadius(item, params))
             ELSE cells)

\* <<>> for the null result
checkCircleCollision(itemA, itemB, indexA, indexB, params) ==
  LET posA == itemA.transformed[1]
      posB == itemB.transformed[1]
      dx == posB.x - posA.x
      dy == posB.y - posA.y
      distSq == dx * dx + dy * dy
      minDist == getItemRadius(itemA, params) + getItemRadius(itemB, params)
  IN  IF distSq < minDist * minDist /\ distSq > 0
      THEN LET dist == ISqrt(distSq)
           IN  <<[type |-> "item", indexA |-> indexA, indexB |-> indexB,
                  normal |-> [x |-> (dx * One) \div dist, y |-> (dy * One) \div dist],
                  penetration |-> minDist - dist]>>
      ELSE <<>>

WallRecord(index, edge, nx, ny, penetration) ==
  [type |-> "wall", indexA |-> index, indexB |-> edge,
   normal |-> [x |-> nx * One, y |-> ny * One], penetration |-> penetration]

\* wall checks that also report a circle touching an edge from inside
checkWallCollisions_Touching(item, index, params, canvasWidth, canvasHeight) ==
  LET pos == item.transformed[1]
      radius == getItemRadius(item, params)
  IN  (IF pos.x - radius <= 0 THEN <<WallRecord(index, Left, 1, 0, radius - pos.x)>> ELSE <<>>)
      \o (IF pos.x + radius >= canvasWidth * Px
          THEN <<WallRecord(index, Right, -1, 0, (pos.x + radius) - canvasWidth * Px)>> ELSE <<>>)
      \o (IF pos.y - radius <= 0 THEN <<WallRecord(index, Top, 0, 1, radius - pos.y)>> ELSE <<>>)
      \o (IF pos.y + radius >= canvasHeight * Px
          THEN <<WallRecord(index, Bottom, 0, -1, (pos.y + radius) - canvasHeight * Px)>> ELSE <<>>)

\* canvasWidth, canvasHeight in pixels
checkWallCollisions(item, index, params, canvasWidth, canvasHeight) ==
  LET pos == item.transformed[1]
      radius == getItemRadius(item, params)
  IN  (IF pos.x - radius < 0 THEN <<WallRecord(index, Left, 1, 0, radius - pos.x)>> ELSE <<>>)
      \o (IF pos.x + radius > canvasWidth * Px
          THEN <<WallRecord(index, Right, -1, 0, (pos.x + radius) - canvasWidth * Px)>> ELSE <<>>)
      \o (IF pos.y - radius < 0 THEN <<WallRecord(index, Top, 0, 1, radius - pos.y)>> ELSE <<>>)
      \o (IF pos.y + radius > canvasHeight * Px
          THEN <<WallRecord(index, Bottom, 0, -1, (pos.y + radius) - canvasHeight * Px)>> ELSE <<>>)

RECURSIVE PairRun(_, _, _, _, _, _)
PairRun(items, params, i, candidates, k, acc) ==
  IF k > Len(candidates) THEN acc
  ELSE LET j == candidates[k]
       IN  PairRun(items, params, i, candidates, k + 1,
             IF j <= i \/ ~HasTransform(items[j + 1]) THEN acc
             ELSE acc \o checkCircleCollision(items[i + 1], items[j + 1], i, j, params))

RECURSIVE DetectRun(_, _, _, _, _, _, _)
DetectRun(items, params, canvasWidth, canvasHeight, cells, i, acc) ==
  IF i >= Len(items) THEN acc
  ELSE LET itemA == items[i + 1]
       IN  IF ~HasTransform(itemA)
           THEN DetectRun(items, params, canvasWidth, canvasHeight, cells, i + 1, acc)
           ELSE LET candidates == query(cells, HashCellSize(params), itemA.transformed[1].x,
                                        itemA.transformed[1].y, getItemRadius(itemA, params) * 2)
                    pairs == PairRun(items, params, i, candidates, 1, <<>>)
                    walls == IF params.wallBounce
                             THEN checkWallCollisions(itemA, i, params, canvasWidth, canvasHeight)
                             ELSE <<>>
                IN  DetectRun(items, params, canvasWidth, canvasHeight, cells, i + 1,
                              acc \o pairs \o walls)

\* a detector that builds its hash once and keeps it
ensureSpatialHash_OnlyWhenMissing(det, canvasWidth, canvasHeight, fontSize) ==
  LET cellSize == fontSize * 3 * Px
  IN  IF det.spatialHash = <<>>
      THEN [spatialHash |-> <<SpatialHash(cellSize, canvasWidth, canvasHeight)>>,
            lastCellSize |-> cellSize,
            lastCanvasWidth |-> canvasWidth,
            lastCanvasHeight |-> canvasHeight]
      ELSE det

\* the detector after ensureSpatialHash(canvasWidth, canvasHeight, fontSize)
ensureSpatialHash(det, canvasWidth, canvasHeight, fontSize) ==
  LET cellSize == fontSize * 3 * Px
  IN  IF \/ det.spatialHash = <<>>
         \/ det.lastCellSize # cellSize
         \/ det.lastCanvasWidth # canvasWidth
         \/ det.lastCanvasHeight # canvasHeight
      THEN [spatialHash |-> <<SpatialHash(cellSize, canvasWidth, canvasHeight)>>,
            lastCellSize |-> cellSize,
            lastCanvasWidth |-> canvasWidth,
            lastCanvasHeight |-> canvasHeight]
      ELSE det

\* this.spatialHash.insert(i, x, y, radius) for the items from i on
RECURSIVE InsertItems(_, _, _, _)
InsertItems(hash, items, params, i) ==
  IF i >= Len(items) THEN hash
  ELSE LET item == items[i + 1]
       IN  InsertItems(IF HasTransform(item)
                       THEN [hash EXCEPT !.cells =
                               insert(hash.cells, hash.cellSize, i, item.transformed[1].x,
                                      item.transformed[1].y, getItemRadius(item, params))]
                       ELSE hash,
                       items, params, i + 1)

\* the detector when detectCollisions starts to query: ensureSpatialHash,
\* this.spatialHash.clear(), and the inserts
HashedDetector(det, items, params, canvasWidth, canvasHeight) ==
  LET ensured == ensureSpatialHash(det, canvasWidth * Px, canvasHeight * Px, params.fontSize)
      cleared == [ensured.spatialHash[1] EXCEPT !.cells = {}]
  IN  [ensured EXCEPT !.spatialHash = <<InsertItems(cleared, items, params, 0)>>]

detectCollisions(items, params, canvasWidth, canvasHeight) ==
  DetectRun(items, params, canvasWidth, canvasHeight, InsertAll(items, params, 0, {}), 0, <<>>)

(***************************************************************************)
(* unnamed/part_008: COLLISION_CURVES, CollisionResolver                   *)
(***************************************************************************)
BounceOut(t) ==
  IF t < 364 THEN One - (7562 * Sq(t)) \div One
  ELSE IF t < 727 THEN One - ((7562 * Sq(t - 545)) \div One + 750)
  ELSE IF t < 909 THEN One - ((7562 * Sq(t - 818)) \div One + 937)
  ELSE One - ((7562 * Sq(t - 955)) \div One + 984)

COLLISION_CURVES(name, progress) ==
  CASE name = "bounce" -> BounceOut(One - progress)
    [] name = "elastic" ->
         IF progress = 0 \/ progress = One THEN One - progress
         ELSE (Pow2Neg(10 * progress) * Sin(((progress - 75) * 20944) \div One)) \div One
              + (One - progress) \div 2
    [] name = "snap" ->
         IF progress < 100 THEN One ELSE Max(0, One - ((progress - 100) * One) \div 900)
    [] name = "noise" ->
         Max(0, Sin((progress * Pi) \div One) + (Sin(ScaleAngle(progress, 47123)) * 2) \div 10)
    [] OTHER -> Sin((progress * Pi) \div One)

NewState(time, params, nx, ny, penetration, other, type) ==
  [active |-> TRUE,
   startTime |-> time,
   duration |-> params.collisionDuration * 60,
   normal |-> [x |-> nx, y |-> ny],
   penetration |-> penetration,
   strength |-> params.collisionStrength,
   collidedWith |-> other,
   type |-> type]

\* a resolver in which the last collision reported always wins
Supersedes_LastWins(states, index, penetration) ==
  \/ index \notin DOMAIN states
  \/ ~states[index].active
  \/ penetration # states[index].penetration

\* a resolver that also restarts on an equally deep collision
Supersedes_OrEqual(states, index, penetration) ==
  \/ index \notin DOMAIN states
  \/ ~states[index].active
  \/ penetration >= states[index].penetration

\* !existingState || !existingState.active || penetration > existingState.penetration
Supersedes(states, index, penetration) ==
  \/ index \notin DOMAIN states
  \/ ~states[index].active
  \/ penetration > states[index].penetration

SetState(states, index, st) ==
  [i \in DOMAIN states \cup {index} |-> IF i = index THEN st ELSE states[i]]

\* a resolver that hands item B the normal of item A
startCollisionResponse_SameNormal(states, collision, time, params) ==
  LET afterA ==
        IF Supersedes(states, collision.indexA, collision.penetration)
        THEN SetState(states, collision.indexA,
                      NewState(time, params, collision.normal.x, collision.normal.y,
                               collision.penetration, collision.indexB, collision.type))
        ELSE states
  IN  IF collision.type = "item" /\ collision.indexB >= 0
         /\ Supersedes(afterA, collision.indexB, collision.penetration)
      THEN SetState(afterA, collision.indexB,
                    NewState(time, params, collision.normal.x, collision.normal.y,
                             collision.penetration, collision.indexA, collision.type))
      ELSE afterA

startCollisionResponse(states, collision, time, params) ==
  LET afterA ==
        IF Supersedes(states, collision.indexA, collision.penetration)
        THEN SetState(states, collision.indexA,
                      NewState(time, params, collision.normal.x, collision.normal.y,
                               collision.penetration, collision.indexB, collision.type))
        ELSE states
  IN  IF collision.type = "item" /\ collision.indexB >= 0
         /\ Supersedes(afterA, collision.indexB, collision.penetration)
      THEN SetState(afterA, collision.indexB,
                    NewState(time, params, -collision.normal.x, -collision.normal.y,
                             collision.penetration, collision.indexA, collision.type))
      ELSE afterA

RECURSIVE resolveCollisions(_, _, _, _)
resolveCollisions(states, collisionList, time, params) ==
  IF collisionList = <<>> THEN states
  ELSE resolveCollisions(startCollisionResponse(states, Head(collisionList), time, params),
                         Tail(collisionList), time, params)

Progress(state, time) == Min(((time - state.startTime) * One) \div state.duration, One)

\* the state map after updateCollisionResponses(items, time, params)
UpdatedStates(states, nItems, time) ==
  [i \in DOMAIN states |->
     IF i < nItems /\ states[i].active /\ Progress(states[i], time) >= One
     THEN [states[i] EXCEPT !.active = FALSE]
     ELSE states[i]]

\* an update that deflects a finished response by the end of the curve
UpdatedOffset_NoCompletion(states, index, time, params) ==
  IF index \notin DOMAIN states \/ ~states[index].active
  THEN [x |-> 0, y |-> 0]
  ELSE LET state == states[index]
           curveValue == COLLISION_CURVES(params.positionCurve, Progress(state, time))
           baseDeflection == ((state.penetration + params.fontSize * 30) * state.strength) \div One
       IN  [x |-> (((state.normal.x * baseDeflection) \div One) * curveValue) \div One,
            y |-> (((state.normal.y * baseDeflection) \div One) * curveValue) \div One]

\* item.collisionOffset after updateCollisionResponses(items, time, params)
UpdatedOffset(states, index, time, params) ==
  IF index \notin DOMAIN states \/ ~states[index].active
     \/ Progress(states[index], time) >= One
  THEN [x |-> 0, y |-> 0]
  ELSE LET state == states[index]
           curveValue == COLLISION_CURVES(params.positionCurve, Progress(state, time))
           baseDeflection == ((state.penetration + params.fontSize * 30) * state.strength) \div One
       IN  [x |-> (((state.normal.x * baseDeflection) \div One) * curveValue) \div One,
            y |-> (((state.normal.y * baseDeflection) \div One) * curveValue) \div One]

(***************************************************************************)
(* main.js: module state, cache keys, the preview tick                     *)
(***************************************************************************)
VARIABLES
  PARAMS,                \* the shared parameter object (config.js)
  width, height,         \* p.width, p.height, in pixels
  time,                  \* the preview clock
  gridCache,             \* the cached item list (items of the last regeneration)
  gridCacheId,           \* identity of the array held in gridCache
  gridCacheKey,          \* <<>> is null
  spatialPhaseCacheKey,  \* <<>> is null
  needsRedraw,
  isExporting,
  currentItemsSet,       \* currentItems is gridCache once a frame was rendered, [] before
  collisionStates,       \* CollisionResolver.collisionStates: index -> state
  collisions,            \* the records returned by the last detectCollisions
  changes,               \* number of parameter edits so far
  op,                    \* the operation that ran last, with its argument
  spatialHash,           \* a SpatialHash driven directly: cellSize, canvas, cells
  customPresets,         \* presets.js: the list of custom presets
  detector,              \* CollisionDetector: spatialHash and the last* fields
  fontManager,           \* FontManager: loadedFonts, loadingPromises
  fontCalls,             \* the loadFont calls under way and the promises of the internal loads
  glyphCache,            \* GlyphCache: cache (in insertion order), maxSize, stats
  mp4Export              \* the MP4 export under way and the exportState of its button

vars == <<PARAMS, width, height, time, gridCache, gridCacheId, gridCacheKey,
          spatialPhaseCacheKey, needsRedraw, isExporting, currentItemsSet,
          collisionStates, collisions, changes, op, spatialHash, customPresets,
          detector, fontManager, fontCalls, glyphCache, mp4Export>>

\* the state outside main.js and the collision classes
otherVars == <<spatialHash, customPresets, detector, fontManager, fontCalls, glyphCache,
               mp4Export>>

\* the vector classes and the export
vectorVars == <<detector, fontManager, fontCalls, glyphCache, mp4Export>>

MaxChanges == 1
MaxTime == 9
IdModulus == 2

Null == <<>>

\* new CollisionDetector()
CollisionDetector ==
  [spatialHash |-> Null, lastCellSize |-> 0, lastCanvasWidth |-> 0, lastCanvasHeight |-> 0]

\* a Map without entries
EmptyMap == [key \in {} |-> Null]

\* new FontManager()
FontManager == [loadedFonts |-> EmptyMap, loadingPromises |-> EmptyMap]

\* no loadFont call was made yet
NoFontCalls == [promises |-> <<>>, calls |-> <<>>]

\* new GlyphCache(maxSize)
GlyphCache(maxSize) ==
  [cache |-> <<>>, maxSize |-> maxSize, stats |-> [hits |-> 0, misses |-> 0]]

\* export const glyphCache = new GlyphCache(200)
DefaultMaxSize == 200

\* no export under way; the exportState of the Export MP4 button
NoExport == [pc |-> "idle", frame |-> 0, totalFrames |-> 0,
             exportState |-> [progress |-> 0, isExporting |-> FALSE]]

\* the classes as constructed when the modules load
InitClasses ==
  /\ detector = CollisionDetector
  /\ fontManager = FontManager
  /\ fontCalls = NoFontCalls
  /\ glyphCache = GlyphCache(DefaultMaxSize)
  /\ mp4Export = NoExport

\* a key that leaves out tracking and lineSpacing
getGridCacheKey_NoSpacing(params, w, h) ==
  params.text \o <<"|", params.mode, "|", params.textDistribution,
                   "|", ToString(params.columns), "|", ToString(params.rows),
                   "|", ToString(w), "|", ToString(h)>>

\* `${text}|${mode}|${textDistribution}|${columns}|${rows}|${tracking}|${lineSpacing}|${width}|${height}`
getGridCacheKey(params, w, h) ==
  params.text \o <<"|", params.mode, "|", params.textDistribution,
                   "|", ToString(params.columns), "|", ToString(params.rows),
                   "|", ToString(params.tracking), "|", ToString(params.lineSpacing),
                   "|", ToString(w), "|", ToString(h)>>

\* a key that leaves out the row and column phase offsets
getSpatialPhaseCacheKey_NoOffsets(params) ==
  <<params.sequencePattern, "|", ToString(params.waveCycles), "|", params.linearDirection,
    "|", ToString(params.spiralDensity)>>

getSpatialPhaseCacheKey(params) ==
  <<params.sequencePattern, "|", ToString(params.waveCycles), "|", params.linearDirection,
    "|", ToString(params.spiralDensity), "|", ToString(params.rowPhaseOffset),
    "|", ToString(params.colPhaseOffset)>>

precomputeSpatialPhases(items, params) ==
  [i \in 1..Len(items) |-> [items[i] EXCEPT !.spatialPhase = <<getSpatialPhase(items[i], params)>>]]

currentItems == IF currentItemsSet THEN gridCache ELSE <<>>

DefaultParams ==
  [text |-> <<"a", "b">>, mode |-> "letter", textDistribution |-> "repeat",
   fontSize |-> 60, columns |-> 2, rows |-> 2,
   waveCycles |-> 2, sequencePattern |-> "wave", linearDirection |-> "horizontal",
   spiralDensity |-> 2000, globalSpeed |-> 3000,
   scaleEnabled |-> TRUE, scaleMin |-> 300, scaleMax |-> 1000, scaleCurve |-> "sine",
   positionEnabled |-> FALSE, positionMode |-> "oscillate", positionOrigin |-> "off",
   positionAmplitudeX |-> 20, positionAmplitudeY |-> 0, positionFrequency |-> 1000,
   positionCurve |-> "sine", positionNoiseIntensity |-> 300, positionEasing |-> "linear",
   containToCell |-> FALSE,
   opacityEnabled |-> FALSE, opacityMin |-> 200, opacityMax |-> 1000, opacityCurve |-> "sine",
   jitterEnabled |-> FALSE, jitterAmount |-> 10, jitterSpeed |-> 500,
   tracking |-> 0, lineSpacing |-> 0, rowPhaseOffset |-> 0, colPhaseOffset |-> 0,
   collisionEnabled |-> TRUE, collisionStrength |-> 1000, collisionDuration |-> 100,
   wallBounce |-> FALSE]

\* the values the controls panel sets in this model, besides the defaults
ParamEdits ==
  {<<"text", <<>>>>, <<"text", <<"a", " ", "b">>>>,
   <<"mode", "word">>,
   <<"textDistribution", "split-letter">>, <<"textDistribution", "split-word">>,
   <<"columns", 3>>, <<"rows", 1>>, <<"tracking", 5>>, <<"lineSpacing", 5>>,
   <<"sequencePattern", "linear">>, <<"sequencePattern", "centerOut">>,
   <<"sequencePattern", "spiral">>, <<"sequencePattern", "random">>,
   <<"waveCycles", 1>>, <<"linearDirection", "vertical">>, <<"linearDirection", "diagonal">>,
   <<"spiralDensity", 500>>, <<"rowPhaseOffset", 1000>>, <<"colPhaseOffset", 1000>>,
   <<"scaleEnabled", FALSE>>, <<"jitterEnabled", TRUE>>,
   <<"collisionEnabled", FALSE>>}

EditedFields == {e[1] : e \in ParamEdits}

CanvasSizes == {<<60, 60>>, <<120, 60>>}

Init ==
  /\ PARAMS = DefaultParams
  /\ width = 60
  /\ height = 60
  /\ time = 0
  /\ gridCache = <<>>
  /\ gridCacheId = 0
  /\ gridCacheKey = Null
  /\ spatialPhaseCacheKey = Null
  /\ needsRedraw = TRUE
  /\ isExporting = FALSE
  /\ currentItemsSet = FALSE
  /\ collisionStates = <<>>
  /\ collisions = <<>>
  /\ changes = 0
  /\ op = <<"init", "">>
  /\ spatialHash = SpatialHash(HashCellSize(PARAMS), width * Px, height * Px)
  /\ customPresets = <<>>
  /\ InitClasses

physicsVars == <<collisionStates, collisions>>

\* a change made in the controls panel: pane.on('change') calls markNeedsRedraw
SetParam(field, value) ==
  /\ changes < MaxChanges
  /\ PARAMS[field] # value
  /\ PARAMS' = [PARAMS EXCEPT ![field] = value]
  /\ needsRedraw' = TRUE
  /\ changes' = changes + 1
  /\ op' = <<"setParam", field>>
  /\ UNCHANGED otherVars
  /\ UNCHANGED <<width, height, time, gridCache, gridCacheId, gridCacheKey,
                 spatialPhaseCacheKey, isExporting, currentItemsSet, physicsVars>>

markNeedsRedraw ==
  /\ needsRedraw' = TRUE
  /\ op' = <<"markNeedsRedraw", "">>
  /\ UNCHANGED otherVars
  /\ UNCHANGED <<PARAMS, width, height, time, gridCache, gridCacheId, gridCacheKey,
                 spatialPhaseCacheKey, isExporting, currentItemsSet, physicsVars, changes>>

invalidateGridCache ==
  /\ gridCacheKey' = Null
  /\ spatialPhaseCacheKey' = Null
  /\ needsRedraw' = TRUE
  /\ op' = <<"invalidateGridCache", "">>
  /\ UNCHANGED otherVars
  /\ UNCHANGED <<PARAMS, width, height, time, gridCache, gridCacheId,
                 isExporting, currentItemsSet, physicsVars, changes>>

\* handleAspectRatioChange and p.windowResized: the canvas takes the computed size
ResizeCanvas(name, size) ==
  /\ gridCacheKey' = Null
  /\ needsRedraw' = TRUE
  /\ width' = size[1]
  /\ height' = size[2]
  /\ op' = <<name, "">>
  /\ UNCHANGED otherVars
  /\ UNCHANGED <<PARAMS, time, gridCache, gridCacheId, spatialPhaseCacheKey,
                 isExporting, currentItemsSet, physicsVars, changes>>

handleAspectRatioChange == \E size \in CanvasSizes : ResizeCanvas("handleAspectRatioChange", size)

windowResized == \E size \in CanvasSizes : ResizeCanvas("windowResized", size)

isAnimating ==
  PARAMS.scaleEnabled \/ PARAMS.positionEnabled \/ PARAMS.opacityEnabled \/ PARAMS.jitterEnabled

\* a draw that renders while an export runs
DrawRenders_WhileExporting == needsRedraw \/ isAnimating

\* p.draw reaches renderFrame
DrawRenders == ~isExporting /\ (needsRedraw \/ isAnimating)

Transformed(items, t, params) ==
  [i \in 1..Len(items) |->
     [items[i] EXCEPT !.transformed = <<applyTransforms(items[i], i - 1, t, params)>>]]

\* the else-if of renderFrame: grid unchanged but sequence parameters changed
PhaseKeyChanged(newPhaseKey) == spatialPhaseCacheKey # newPhaseKey

renderFrame(t) ==
  LET chars == parseText(PARAMS.text, PARAMS.mode)
      newGridKey == getGridCacheKey(PARAMS, width, height)
      newPhaseKey == getSpatialPhaseCacheKey(PARAMS)
  IN  IF Len(chars) = 0
      THEN UNCHANGED <<gridCache, gridCacheId, gridCacheKey, spatialPhaseCacheKey,
                       currentItemsSet>>
      ELSE /\ IF gridCacheKey # newGridKey
              THEN /\ gridCache' = Transformed(
                        precomputeSpatialPhases(createGrid(chars, PARAMS, width, height), PARAMS),
                        t, PARAMS)
                   /\ gridCacheId' = (gridCacheId + 1) % IdModulus
                   /\ gridCacheKey' = newGridKey
                   /\ spatialPhaseCacheKey' = newPhaseKey
              ELSE IF PhaseKeyChanged(newPhaseKey)
              THEN /\ gridCache' = Transformed(precomputeSpatialPhases(gridCache, PARAMS), t, PARAMS)
                   /\ spatialPhaseCacheKey' = newPhaseKey
                   /\ UNCHANGED <<gridCacheId, gridCacheKey>>
              ELSE /\ gridCache' = Transformed(gridCache, t, PARAMS)
                   /\ UNCHANGED <<gridCacheId, gridCacheKey, spatialPhaseCacheKey>>
           /\ currentItemsSet' = TRUE

draw ==
  /\ time + PARAMS.globalSpeed <= MaxTime * One
  /\ op' = <<"draw", "">>
  /\ UNCHANGED otherVars
  /\ IF DrawRenders
     THEN /\ needsRedraw' = FALSE
          /\ renderFrame(time)
          /\ time' = time + PARAMS.globalSpeed
     ELSE UNCHANGED <<needsRedraw, time, gridCache, gridCacheId, gridCacheKey,
                      spatialPhaseCacheKey, currentItemsSet>>
  /\ UNCHANGED <<PARAMS, width, height, isExporting, physicsVars, changes>>

(***************************************************************************)
(* The collision classes called on the items of the current frame          *)
(***************************************************************************)
pipelineVars == <<PARAMS, width, height, gridCacheId, gridCacheKey, spatialPhaseCacheKey,
                  needsRedraw, isExporting, currentItemsSet, changes>>

\* detector.detectCollisions(items, params, canvasWidth, canvasHeight)
Detect ==
  /\ detector' = HashedDetector(detector, gridCache, PARAMS, width, height)
  /\ collisions' = DetectRun(gridCache, PARAMS, width, height,
                             detector'.spatialHash[1].cells, 0, <<>>)
  /\ op' = <<"detectCollisions", "">>
  /\ UNCHANGED <<spatialHash, customPresets, fontManager, fontCalls, glyphCache, mp4Export>>
  /\ UNCHANGED <<pipelineVars, time, gridCache, collisionStates>>

\* resolver.startCollisionResponse(collision, items, time, params) on the first
\* record not yet handed to the resolver
StartResponse ==
  /\ collisions # <<>>
  /\ collisionStates' = startCollisionResponse(collisionStates, Head(collisions), time, PARAMS)
  /\ collisions' = Tail(collisions)
  /\ op' = <<"startCollisionResponse", "">>
  /\ UNCHANGED otherVars
  /\ UNCHANGED <<pipelineVars, time, gridCache>>

\* resolver.resolveCollisions(collisions, items, time, params)
Resolve ==
  /\ collisions # <<>>
  /\ collisionStates' = resolveCollisions(collisionStates, collisions, time, PARAMS)
  /\ collisions' = <<>>
  /\ op' = <<"resolveCollisions", "">>
  /\ UNCHANGED otherVars
  /\ UNCHANGED <<pipelineVars, time, gridCache>>

\* resolver.updateCollisionResponses(items, time, params)
Update ==
  /\ collisionStates' = UpdatedStates(collisionStates, Len(gridCache), time)
  /\ gridCache' = [i \in 1..Len(gridCache) |->
                     [gridCache[i] EXCEPT !.collisionOffset =
                        <<UpdatedOffset(collisionStates, i - 1, time, PARAMS)>>]]
  /\ op' = <<"updateCollisionResponses", "">>
  /\ UNCHANGED otherVars
  /\ UNCHANGED <<pipelineVars, time, collisions>>

\* resolver.clear()
Clear ==
  /\ collisionStates' = <<>>
  /\ op' = <<"clear", "">>
  /\ UNCHANGED otherVars
  /\ UNCHANGED <<pipelineVars, time, gridCache, collisions>>

\* the preview: controls, canvas events and draw ticks
Next ==
  \/ \E e \in ParamEdits : SetParam(e[1], e[2])
  \/ \E f \in EditedFields : SetParam(f, DefaultParams[f])
  \/ markNeedsRedraw
  \/ invalidateGridCache
  \/ handleAspectRatioChange
  \/ windowResized
  \/ draw

Spec == Init /\ [][Next]_vars

\* the preview with the collision classes run on the items of the current frame
CollisionEdits ==
  {<<"rows", 1>>, <<"rows", 2>>, <<"text", <<>>>>, <<"text", <<"a", "b">>>>,
   <<"collisionEnabled", FALSE>>, <<"collisionEnabled", TRUE>>}

NextCollision ==
  \/ \E e \in CollisionEdits : SetParam(e[1], e[2])
  \/ draw
  \/ Detect
  \/ Resolve
  \/ Update
  \/ Clear

SpecCollision == Init /\ [][NextCollision]_vars

(***************************************************************************)
(* Preview ticks: layout cache and spatial phases                          *)
(***************************************************************************)
\* a step of draw in which renderFrame is called
RenderStep == op' = <<"draw", "">> /\ DrawRenders

InputUnits == parseText(PARAMS.text, PARAMS.mode)

\* symbol, cell and base position of every item
Layout(items) ==
  [i \in 1..Len(items) |-> <<items[i].char, items[i].row, items[i].col, items[i].x, items[i].y,
                             items[i].totalRows, items[i].totalCols,
                             items[i].cellWidth, items[i].cellHeight>>]

\* C1: on every call of renderFrame the item list is regenerated if and only if
\* the structural key of the current parameters and canvas differs from the
\* stored key (null when invalidated); on every other tick the same list is
\* kept, with no item created, removed or repositioned.
C1_RegeneratedIffKeyDiffers ==
  [][RenderStep =>
       /\ (gridCacheId' # gridCacheId) <=> (gridCacheKey # getGridCacheKey(PARAMS, width, height))
       /\ (gridCacheId' = gridCacheId) => Layout(gridCache') = Layout(gridCache)]_vars

\* C2: after every preview tick with non-empty input every item's stored
\* spatialPhase is the phase getSpatialPhase gives for the current parameters.
C2_PhasesCurrent ==
  [][(RenderStep /\ Len(InputUnits) > 0) =>
       \A i \in 1..Len(gridCache') :
          gridCache'[i].spatialPhase = <<getSpatialPhase(gridCache'[i], PARAMS')>>]_vars

\* a frame was rendered after the sequence parameters changed on an unchanged grid
C2_Witness ==
  /\ op = <<"draw", "">>
  /\ gridCacheId = 1
  /\ gridCache # <<>>
  /\ gridCacheKey = getGridCacheKey(DefaultParams, 60, 60)
  /\ spatialPhaseCacheKey = getSpatialPhaseCacheKey(PARAMS)
  /\ spatialPhaseCacheKey # getSpatialPhaseCacheKey(DefaultParams)
  /\ \E i \in 1..Len(gridCache) :
        gridCache[i].spatialPhase # <<getSpatialPhase(gridCache[i], DefaultParams)>>

\* main.js renderFrameToCanvas: a fresh layout, phases computed on the fly
renderFrameToCanvas(t, params, canvasWidth, canvasHeight) ==
  LET chars == parseText(params.text, params.mode)
  IN  IF Len(chars) = 0 THEN <<>>
      ELSE Transformed(createGrid(chars, params, canvasWidth, canvasHeight), t, params)

Transforms(items) == [i \in 1..Len(items) |-> items[i].transformed]

\* C9: for the same parameters, canvas size and time value the preview tick
\* (cached layout, precomputed phases) and the export frame (fresh layout,
\* phases on the fly) give the same per-item transforms, whatever happened before.
C9_PreviewMatchesExport ==
  [][(RenderStep /\ Len(InputUnits) > 0) =>
       Transforms(gridCache') = Transforms(renderFrameToCanvas(time, PARAMS, width, height))]_vars

\* a preview frame drawn from the cache (no regeneration at least once) after
\* parameter edits, with items animated away from scale 1
C9_Witness ==
  /\ op = <<"draw", "">>
  /\ changes = MaxChanges
  /\ time >= 2 * DefaultParams.globalSpeed
  /\ gridCacheId = 1
  /\ Len(gridCache) > 1
  /\ \E i \in 1..Len(gridCache) : gridCache[i].spatialPhase # <<0>>
  /\ \E i, j \in 1..Len(gridCache) :
        gridCache[i].transformed[1].scale # gridCache[j].transformed[1].scale

(***************************************************************************)
(* The collision states across preview ticks                               *)
(***************************************************************************)
UpdateStep == op' = <<"updateCollisionResponses", "">>

\* C5: with the clock only advancing, after each updateCollisionResponses a
\* state that was active is still active if and only if its elapsed time
\* (now - startTime) is below its duration (collisionDuration * 60).
C5_DeactivatesExactlyAtDuration ==
  [][UpdateStep =>
       \A i \in DOMAIN collisionStates :
          collisionStates[i].active =>
            (collisionStates'[i].active
               <=> (time - collisionStates[i].startTime) < collisionStates[i].duration)]_vars

\* C7: after collision is disabled, and after any tick that regenerates the
\* layout, the state map is empty.
C7_StatesClearedOnDisableAndRegeneration ==
  [][(\/ PARAMS.collisionEnabled /\ ~PARAMS'.collisionEnabled
      \/ RenderStep /\ gridCacheId' # gridCacheId)
       => DOMAIN collisionStates' = {}]_vars

\* item.collisionOffset, (0, 0) while updateCollisionResponses never set it
CollisionOffsetOf(item) ==
  IF item.collisionOffset = Undefined THEN [x |-> 0, y |-> 0] ELSE item.collisionOffset[1]

\* C8: at the end of a pipeline pass with collision enabled every item's
\* transformed position is base position + position-channel offset + jitter
\* offset + the item's current collision offset.
C8_CollisionOffsetMerged ==
  [][(RenderStep /\ Len(InputUnits) > 0 /\ PARAMS.collisionEnabled) =>
       \A i \in 1..Len(gridCache') :
          LET item == gridCache'[i]
          IN  /\ item.transformed[1].x
                   = item.x + PositionOffset("x", item, time, PARAMS)
                       + JitterOffset("x", item, time, PARAMS) + CollisionOffsetOf(item).x
              /\ item.transformed[1].y
                   = item.y + PositionOffset("y", item, time, PARAMS)
                       + JitterOffset("y", item, time, PARAMS) + CollisionOffsetOf(item).y]_vars

(***************************************************************************)
(* The collision classes on a list of items placed anywhere on the canvas  *)
(***************************************************************************)
MaxMoves == 1
MaxClock == 3

\* centres in pixels: two items 1px apart on one side of the 60px cell
\* boundary and a third on the other side; an item can move onto the third,
\* to a 3-4-5 neighbour of the first, past the left wall and far from the
\* others, or to a double-sized pose
Spots == {<<5, 30>>, <<61, 34>>, <<70, 30>>}
Poses == {<<spot, One>> : spot \in Spots} \cup {<<<<40, 30>>, 2 * One>>}
InitialSpots == << <<58, 30>>, <<59, 30>>, <<70, 30>> >>

\* 20px glyphs between walls; a response lasts 3 clock units, one tick
PhysicsParams ==
  [DefaultParams EXCEPT !.fontSize = 20, !.columns = 3, !.rows = 1, !.wallBounce = TRUE,
                        !.collisionDuration = 50]

\* an item whose transform slot holds the given centre and scale
Body(col, spot, scale) ==
  [GridItem(<<"a">>, PhysicsParams, 0, col, 40 * Px, 60 * Px) EXCEPT
     !.transformed = <<[x |-> spot[1] * Px, y |-> spot[2] * Px,
                        scale |-> scale, opacity |-> One, rotation |-> Undefined]>>]

InitPhysics ==
  /\ PARAMS = PhysicsParams
  /\ width = 120
  /\ height = 60
  /\ time = 0
  /\ gridCache = [i \in 1..Len(InitialSpots) |-> Body(i - 1, InitialSpots[i], One)]
  /\ gridCacheId = 0
  /\ gridCacheKey = Null
  /\ spatialPhaseCacheKey = Null
  /\ needsRedraw = TRUE
  /\ isExporting = FALSE
  /\ currentItemsSet = TRUE
  /\ collisionStates = <<>>
  /\ collisions = <<>>
  /\ changes = 0
  /\ op = <<"init", "">>
  /\ spatialHash = SpatialHash(HashCellSize(PARAMS), width * Px, height * Px)
  /\ customPresets = <<>>
  /\ InitClasses

\* a pipeline pass leaves item i with a new transformed centre and scale
Retransform(i, spot, scale) ==
  /\ changes < MaxMoves
  /\ gridCache[i].transformed # Body(i - 1, spot, scale).transformed
  /\ gridCache' = [gridCache EXCEPT ![i].transformed = Body(i - 1, spot, scale).transformed]
  /\ changes' = changes + 1
  /\ op' = <<"retransform", "">>
  /\ UNCHANGED otherVars
  /\ UNCHANGED <<PARAMS, width, height, time, gridCacheId, gridCacheKey, spatialPhaseCacheKey,
                 needsRedraw, isExporting, currentItemsSet, physicsVars>>

\* the clock handed to the resolver advances
AdvanceClock ==
  /\ time + PARAMS.globalSpeed <= MaxClock * One
  /\ time' = time + PARAMS.globalSpeed
  /\ op' = <<"advanceClock", "">>
  /\ UNCHANGED otherVars
  /\ UNCHANGED <<pipelineVars, gridCache, physicsVars>>

NextPhysics ==
  \/ \E i \in 1..Len(gridCache), pose \in Poses : Retransform(i, pose[1], pose[2])
  \/ AdvanceClock
  \/ Detect
  \/ StartResponse
  \/ Update
  \/ Clear

SpecPhysics == InitPhysics /\ [][NextPhysics]_vars

(***************************************************************************)
(* Properties of the detector and the resolver                             *)
(***************************************************************************)
DetectStep == op' = <<"detectCollisions", "">>
StartStep == op' = <<"startCollisionResponse", "">>

CentreDistSq(itemA, itemB) ==
  LET dx == itemB.transformed[1].x - itemA.transformed[1].x
      dy == itemB.transformed[1].y - itemA.transformed[1].y
  IN  dx * dx + dy * dy

RadiusSum(itemA, itemB, params) == getItemRadius(itemA, params) + getItemRadius(itemB, params)

Overlapping(itemA, itemB, params) ==
  CentreDistSq(itemA, itemB) < RadiusSum(itemA, itemB, params) * RadiusSum(itemA, itemB, params)

\* how many item-item records of the list name the pair (a, b), in that order
PairRecords(list, a, b) ==
  Cardinality({k \in 1..Len(list) :
                 list[k].type = "item" /\ list[k].indexA = a /\ list[k].indexB = b})

\* an item-item record is well formed: indexA < indexB, penetration is
\* radiusA + radiusB - distance, the normal is the unit vector from A to B
RecordWellFormed(c, items, params) ==
  /\ c.indexA < c.indexB
  /\ LET itemA == items[c.indexA + 1]
         itemB == items[c.indexB + 1]
         dist == ISqrt(CentreDistSq(itemA, itemB))
         dx == itemB.transformed[1].x - itemA.transformed[1].x
         dy == itemB.transformed[1].y - itemA.transformed[1].y
     IN  /\ c.penetration = RadiusSum(itemA, itemB, params) - dist
         /\ dx * One - c.normal.x * dist \in 0..(dist - 1)
         /\ dy * One - c.normal.y * dist \in 0..(dist - 1)

ItemRecordsWellFormed(list, items, params) ==
  \A k \in 1..Len(list) : list[k].type = "item" => RecordWellFormed(list[k], items, params)

\* C3: detectCollisions returns exactly one item-item record for every pair
\* of items whose centres are less than radiusA + radiusB apart, none for any
\* other pair, each record with indexA < indexB, the normal from A to B and
\* penetration radiusA + radiusB - distance
C3_OneRecordPerOverlappingPair ==
  [][DetectStep =>
       /\ \A a, b \in 0..(Len(gridCache) - 1) :
            PairRecords(collisions', a, b) =
              IF a < b /\ Overlapping(gridCache[a + 1], gridCache[b + 1], PARAMS)
              THEN 1 ELSE 0
       /\ ItemRecordsWellFormed(collisions', gridCache, PARAMS)]_vars

\* C3 amended: as C3, for the pairs whose centres are apart (distance > 0)
\* and less than radiusA + radiusB apart; two items on the same centre give
\* no record
C3_OneRecordPerOverlappingPairApart ==
  [][DetectStep =>
       /\ \A a, b \in 0..(Len(gridCache) - 1) :
            PairRecords(collisions', a, b) =
              IF a < b /\ Overlapping(gridCache[a + 1], gridCache[b + 1], PARAMS)
                       /\ CentreDistSq(gridCache[a + 1], gridCache[b + 1]) > 0
              THEN 1 ELSE 0
       /\ ItemRecordsWellFormed(collisions', gridCache, PARAMS)]_vars

\* two items 1px apart have been detected: one record, penetration 2r - 1px,
\* normal (1, 0); and a pair in different hash cells has been detected too
C3_Witness ==
  /\ op = <<"detectCollisions", "">>
  /\ \E k \in 1..Len(collisions) :
       /\ collisions[k].type = "item"
       /\ collisions[k].penetration = 2 * getItemRadius(gridCache[1], PARAMS) - Px
       /\ collisions[k].normal = [x |-> One, y |-> 0]
  /\ \E k \in 1..Len(collisions) :
       /\ collisions[k].type = "item"
       /\ gridCache[collisions[k].indexA + 1].transformed[1].x \div HashCellSize(PARAMS)
            # gridCache[collisions[k].indexB + 1].transformed[1].x \div HashCellSize(PARAMS)

\* the state the resolver writes for a member of the record
Restarted(st, c, other, now, params) ==
  /\ st.active
  /\ st.startTime = now
  /\ st.penetration = c.penetration
  /\ st.strength = params.collisionStrength
  /\ st.collidedWith = other

Partner(c, i) == IF i = c.indexA THEN c.indexB ELSE c.indexA

Members(c) == IF c.type = "item" THEN {c.indexA, c.indexB} ELSE {c.indexA}

\* C4: a reported collision replaces an item's state only if the item has no
\* state, its state is inactive, or the new penetration is strictly greater
\* than the stored one; every other state is left entirely unchanged
C4_ReplacedOnlyIfStronger ==
  [][StartStep =>
       LET c == Head(collisions)
       IN  /\ DOMAIN collisionStates' = DOMAIN collisionStates \cup Members(c)
           /\ \A i \in DOMAIN collisionStates' :
                IF i \in Members(c)
                   /\ (\/ i \notin DOMAIN collisionStates
                       \/ ~collisionStates[i].active
                       \/ c.penetration > collisionStates[i].penetration)
                THEN Restarted(collisionStates'[i], c, Partner(c, i), time, PARAMS)
                ELSE collisionStates'[i] = collisionStates[i]]_vars

\* a record has just been processed in which one member restarted and its
\* partner kept the older, deeper state
C4_Witness ==
  /\ op = <<"startCollisionResponse", "">>
  /\ \E i, j \in DOMAIN collisionStates :
       /\ collisionStates[j].startTime = time
       /\ collisionStates[j].collidedWith = i
       /\ collisionStates[i].active
       /\ collisionStates[i].startTime < time
       /\ collisionStates[i].collidedWith # j

Negated(n) == [x |-> -n.x, y |-> -n.y]

\* C6: after the resolver has processed a collision of item A with item B,
\* the normal held for B is the exact negation of the normal held for A
C6_HeldNormalsMirrored ==
  [][StartStep /\ Head(collisions).type = "item" =>
       LET c == Head(collisions)
       IN  collisionStates'[c.indexB].normal = Negated(collisionStates'[c.indexA].normal)]_vars

\* C6 amended: a member whose state the collision replaces holds the normal
\* of the record (A) or its exact negation (B), so that the two held normals
\* are mirrored whenever both states are replaced
C6_ReplacedNormalsMirrored ==
  [][StartStep /\ Head(collisions).type = "item" =>
       LET c == Head(collisions)
           replacedA == Supersedes(collisionStates, c.indexA, c.penetration)
           replacedB == Supersedes(collisionStates, c.indexB, c.penetration)
       IN  /\ replacedA => collisionStates'[c.indexA].normal = c.normal
           /\ replacedB => collisionStates'[c.indexB].normal = Negated(c.normal)
           /\ replacedA /\ replacedB =>
                collisionStates'[c.indexB].normal = Negated(collisionStates'[c.indexA].normal)]_vars

\* both members of a collision restarted together and hold opposite normals
C6_Witness ==
  /\ op = <<"startCollisionResponse", "">>
  /\ \E a, b \in DOMAIN collisionStates :
       /\ a < b
       /\ collisionStates[a].collidedWith = b
       /\ collisionStates[b].collidedWith = a
       /\ collisionStates[a].startTime = time
       /\ collisionStates[b].startTime = time
       /\ collisionStates[a].normal # [x |-> 0, y |-> 0]
       /\ collisionStates[b].normal = Negated(collisionStates[a].normal)

(***************************************************************************)
(* The transform stage on pathological scale and opacity ranges            *)
(***************************************************************************)
\* range ends: negative, zero, inside and above the usual range, and the
\* largest finite doubles of either sign
RangeEnds == {-DoubleMax, -500, 0, 300, One, 3 * One, DoubleMax}

\* the travel amplitude: position channel off, or the largest finite percentage
AmplitudeEnds == {0, DoubleMax}

InitTransform ==
  /\ \E lo, hi \in RangeEnds, curve \in CurveNames, scaleOn, opacityOn \in BOOLEAN,
        amplitude \in AmplitudeEnds :
       PARAMS = [DefaultParams EXCEPT !.scaleEnabled = scaleOn, !.opacityEnabled = opacityOn,
                                      !.positionEnabled = amplitude # 0,
                                      !.positionMode = "travel",
                                      !.positionAmplitudeX = amplitude,
                                      !.positionAmplitudeY = amplitude,
                                      !.scaleMin = lo, !.scaleMax = hi,
                                      !.opacityMin = lo, !.opacityMax = hi,
                                      !.scaleCurve = curve, !.opacityCurve = curve]
  /\ width = 60
  /\ height = 60
  /\ time = 0
  /\ gridCache = <<>>
  /\ gridCacheId = 0
  /\ gridCacheKey = Null
  /\ spatialPhaseCacheKey = Null
  /\ needsRedraw = TRUE
  /\ isExporting = FALSE
  /\ currentItemsSet = FALSE
  /\ collisionStates = <<>>
  /\ collisions = <<>>
  /\ changes = 0
  /\ op = <<"init", "">>
  /\ spatialHash = SpatialHash(HashCellSize(PARAMS), width * Px, height * Px)
  /\ customPresets = <<>>
  /\ InitClasses

NextTransform == draw

SpecTransform == InitTransform /\ [][NextTransform]_vars

\* C10: for any finite parameters, pathological ranges included, the scale
\* of every transformed item is never <= 0 and its opacity lies within [0, 1]
C10_ScalePositiveOpacityInUnit ==
  \A i \in 1..Len(gridCache) :
    HasTransform(gridCache[i]) =>
      /\ ~LessEq(gridCache[i].transformed[1].scale, 0)
      /\ LessEq(0, gridCache[i].transformed[1].opacity)
      /\ LessEq(gridCache[i].transformed[1].opacity, One)

(***************************************************************************)
(* The values handed to the drawing calls                                  *)
(***************************************************************************)
\* the guards of renderFrame without the one on opacity
renderFrameValues_NoOpacityGuard(transformed) ==
  [x |-> IF ~isFinite(transformed.x) THEN 0 ELSE transformed.x,
   y |-> IF ~isFinite(transformed.y) THEN 0 ELSE transformed.y,
   scale |-> IF ~isFinite(transformed.scale) \/ LessEq(transformed.scale, 0)
             THEN One ELSE transformed.scale,
   opacity |-> transformed.opacity]

\* main.js renderFrame: the guards between destructuring and p.translate
renderFrameValues(transformed) ==
  [x |-> IF ~isFinite(transformed.x) THEN 0 ELSE transformed.x,
   y |-> IF ~isFinite(transformed.y) THEN 0 ELSE transformed.y,
   scale |-> IF ~isFinite(transformed.scale) \/ LessEq(transformed.scale, 0)
             THEN One ELSE transformed.scale,
   opacity |-> IF ~isFinite(transformed.opacity) THEN One ELSE transformed.opacity]

\* main.js renderFrameToCanvas: the guards between destructuring and ctx.translate
renderFrameToCanvasValues(transformed) ==
  [x |-> IF ~isFinite(transformed.x) THEN 0 ELSE transformed.x,
   y |-> IF ~isFinite(transformed.y) THEN 0 ELSE transformed.y,
   scale |-> IF ~isFinite(transformed.scale) \/ LessEq(transformed.scale, 0)
             THEN One ELSE transformed.scale,
   opacity |-> IF ~isFinite(transformed.opacity) THEN One ELSE transformed.opacity]

\* Renderer.renderItem: guards, clamps, and no drawing at opacity <= 0.01;
\* the result is the sequence of the values drawn (empty when it returns early)
renderItem(item) ==
  IF ~HasTransform(item) THEN <<>>
  ELSE LET transformed == item.transformed[1]
           x == IF ~isFinite(transformed.x) THEN 0 ELSE transformed.x
           y == IF ~isFinite(transformed.y) THEN 0 ELSE transformed.y
           scale == IF ~isFinite(transformed.scale) \/ LessEq(transformed.scale, 0)
                    THEN One ELSE transformed.scale
           opacity == IF ~isFinite(transformed.opacity) THEN One ELSE transformed.opacity
           clampedOpacity == MathMax(0, MathMin(One, opacity))
           clampedScale == MathMax(10, MathMin(10 * One, scale))
       IN  IF LessEq(clampedOpacity, 10) THEN <<>>
           ELSE <<[x |-> x, y |-> y, scale |-> clampedScale, opacity |-> clampedOpacity]>>

\* finite coordinates, opacity within [0, 1], scale finite and at least 0.01
Drawable(values) ==
  /\ isFinite(values.x)
  /\ isFinite(values.y)
  /\ LessEq(0, values.opacity) /\ LessEq(values.opacity, One)
  /\ LessEq(10, values.scale) /\ isFinite(values.scale)

MaxEntries == 3

\* the cell sizes a hash is constructed with, and the circles (x, y, radius)
\* and indices handed to insert and query, in length units
HashCellSizes == {50 * Px, 100 * Px}
Circles == {<<x * Px, y * Px, r * Px>> : x \in {-30, 40}, y \in {40, 100}, r \in {0, 70}}
HashIndices == 0..1

InitHash ==
  /\ PARAMS = DefaultParams
  /\ width = 60
  /\ height = 60
  /\ time = 0
  /\ gridCache = <<>>
  /\ gridCacheId = 0
  /\ gridCacheKey = Null
  /\ spatialPhaseCacheKey = Null
  /\ needsRedraw = TRUE
  /\ isExporting = FALSE
  /\ currentItemsSet = FALSE
  /\ collisionStates = <<>>
  /\ collisions = <<>>
  /\ changes = 0
  /\ op = <<"init", <<>>>>
  /\ \E cellSize \in HashCellSizes :
       spatialHash = SpatialHash(cellSize, width * Px, height * Px)
  /\ customPresets = <<>>
  /\ InitClasses

hashVars == <<PARAMS, width, height, time, gridCache, gridCacheId, gridCacheKey,
              spatialPhaseCacheKey, needsRedraw, isExporting, currentItemsSet,
              collisionStates, collisions, changes, customPresets, vectorVars>>

\* hash.insert(index, x, y, radius)
SpatialHashInsert ==
  /\ Cardinality(spatialHash.cells) < MaxEntries
  /\ \E index \in HashIndices, circle \in Circles :
       /\ spatialHash' = [spatialHash EXCEPT !.cells =
                            insert(spatialHash.cells, spatialHash.cellSize, index,
                                   circle[1], circle[2], circle[3])]
       /\ op' = <<"insert", <<index, circle>>>>
  /\ UNCHANGED hashVars

\* hash.clear()
SpatialHashClear ==
  /\ spatialHash' = [spatialHash EXCEPT !.cells = {}]
  /\ op' = <<"clear", <<>>>>
  /\ UNCHANGED hashVars

\* hash.resize(canvasWidth, canvasHeight)
SpatialHashResize ==
  /\ \E size \in CanvasSizes :
       spatialHash' = [SpatialHash(spatialHash.cellSize, size[1] * Px, size[2] * Px)
                       EXCEPT !.cells = {}]
  /\ op' = <<"resize", <<>>>>
  /\ UNCHANGED hashVars

NextHash == SpatialHashInsert \/ SpatialHashClear \/ SpatialHashResize

SpecHash == InitHash /\ [][NextHash]_vars

\* the candidates of a query circle
Candidates(hash, circle) == query(hash.cells, hash.cellSize, circle[1], circle[2], circle[3])

\* the cell columns (rows) an extent from lo to hi lies over
CellSpan(cellSize, lo, hi) == (lo \div cellSize)..(hi \div cellSize)

\* a cell <<col, row>> lies under the bounding square of a circle
Overlaps(cellSize, circle, cell) ==
  /\ cell[1] \in CellSpan(cellSize, circle[1] - circle[3], circle[1] + circle[3])
  /\ cell[2] \in CellSpan(cellSize, circle[2] - circle[3], circle[2] + circle[3])

\* the bounding squares of two circles lie over a common cell
SharesCell(cellSize, a, b) ==
  /\ CellSpan(cellSize, a[1] - a[3], a[1] + a[3])
       \cap CellSpan(cellSize, b[1] - b[3], b[1] + b[3]) # {}
  /\ CellSpan(cellSize, a[2] - a[3], a[2] + a[3])
       \cap CellSpan(cellSize, b[2] - b[3], b[2] + b[3]) # {}

NoDuplicates(seq) == \A i, j \in 1..Len(seq) : seq[i] = seq[j] => i = j

\* C12: after any sequence of insert and clear calls, query(x, y, r) returns
\* exactly the indices stored in the cells under the query extent, each at
\* most once: an insert adds its index to the result of every query whose
\* extent shares a cell with the inserted extent and changes no other result,
\* and after a clear every query is empty
C12_QueryReturnsOverlappedIndices ==
  [][\A circle \in Circles :
       LET before == SeqRange(Candidates(spatialHash, circle))
           after == Candidates(spatialHash', circle)
           size == spatialHash'.cellSize
       IN  /\ NoDuplicates(after)
           /\ SeqRange(after) = {entry[2] : entry \in {e \in spatialHash'.cells :
                                                        Overlaps(size, circle, e[1])}}
           /\ op'[1] = "insert" =>
                SeqRange(after) = before \cup (IF SharesCell(size, op'[2][2], circle)
                                               THEN {op'[2][1]} ELSE {})
           /\ op'[1] \in {"clear", "resize"} => after = <<>>]_vars

\* an insert after which one query returns two indices, one of them stored
\* in several of the cells it looks into, and another query returns nothing
C12_Witness ==
  /\ op[1] = "insert"
  /\ \E circle \in Circles :
       /\ Len(Candidates(spatialHash, circle)) = 2
       /\ \E e, f \in spatialHash.cells :
            /\ e[1] # f[1] /\ e[2] = f[2]
            /\ Overlaps(spatialHash.cellSize, circle, e[1])
            /\ Overlaps(spatialHash.cellSize, circle, f[1])
  /\ \E circle \in Circles : Candidates(spatialHash, circle) = <<>>

(***************************************************************************)
(* physics/SpatialHash.js: the wall checks of detectCollisions on one      *)
(* item posed along the edges of a 120 x 60 canvas, next to a second item  *)
(* at rest in the middle                                                   *)
(***************************************************************************)
\* centres in pixels, for radius 9 (scale 1), 18 (scale 2) and 36 (scale 4):
\* past an edge, touching it from inside, and clear of it
WallSpots == {<<x, y>> : x \in {4, 9, 60, 111, 117}, y \in {5, 9, 30, 51, 56}}
WallScales == {One, 2 * One, 4 * One}

InitWalls ==
  /\ \E wallBounce \in BOOLEAN : PARAMS = [PhysicsParams EXCEPT !.wallBounce = wallBounce]
  /\ width = 120
  /\ height = 60
  /\ time = 0
  /\ \E spot \in WallSpots, scale \in WallScales :
       gridCache = <<Body(0, spot, scale), Body(1, <<60, 30>>, One)>>
  /\ gridCacheId = 0
  /\ gridCacheKey = Null
  /\ spatialPhaseCacheKey = Null
  /\ needsRedraw = TRUE
  /\ isExporting = FALSE
  /\ currentItemsSet = TRUE
  /\ collisionStates = <<>>
  /\ collisions = <<>>
  /\ changes = 0
  /\ op = <<"init", "">>
  /\ spatialHash = SpatialHash(HashCellSize(PARAMS), width * Px, height * Px)
  /\ customPresets = <<>>
  /\ InitClasses

NextWalls == Detect

SpecWalls == InitWalls /\ [][NextWalls]_vars

Walls == {Left, Right, Top, Bottom}

\* how far the circle of an item reaches past an edge of the canvas
PastEdge(item, wall) ==
  LET pos == item.transformed[1]
      radius == getItemRadius(item, PARAMS)
  IN  CASE wall = Left -> radius - pos.x
        [] wall = Right -> (pos.x + radius) - width * Px
        [] wall = Top -> radius - pos.y
        [] wall = Bottom -> (pos.y + radius) - height * Px

\* the unit normal pointing from an edge into the canvas
InwardNormal(wall) ==
  CASE wall = Left -> [x |-> One, y |-> 0]
    [] wall = Right -> [x |-> -One, y |-> 0]
    [] wall = Top -> [x |-> 0, y |-> One]
    [] wall = Bottom -> [x |-> 0, y |-> -One]

WallRecordsOf(index, wall) ==
  {k \in 1..Len(collisions) : /\ collisions[k].type = "wall"
                              /\ collisions[k].indexA = index
                              /\ collisions[k].indexB = wall}

\* C13: after detectCollisions with wallBounce enabled there is one wall
\* record for an item and an edge exactly when the circle of the item
\* reaches past that edge; its normal is the unit vector pointing into the
\* canvas and its penetration the distance past the edge, which is positive;
\* with wallBounce disabled there is no wall record
C13_WallRecordsExactlyPastEdge ==
  op = <<"detectCollisions", "">> =>
    \A i \in 1..Len(gridCache), wall \in Walls :
      LET past == PastEdge(gridCache[i], wall)
          records == WallRecordsOf(i - 1, wall)
      IN  /\ Cardinality(records) = (IF PARAMS.wallBounce /\ past > 0 THEN 1 ELSE 0)
          /\ \A k \in records : /\ collisions[k].normal = InwardNormal(wall)
                                 /\ collisions[k].penetration = past
                                 /\ collisions[k].penetration > 0

\* a detection with the first item 5px past the left wall only: one wall
\* record, with normal (1, 0) and penetration 5
C13_Witness ==
  /\ op = <<"detectCollisions", "">>
  /\ PastEdge(gridCache[1], Left) = 5 * Px
  /\ \E k \in 1..Len(collisions) :
       /\ collisions[k].type = "wall"
       /\ collisions[k].indexB = Left
       /\ collisions[k].normal = [x |-> One, y |-> 0]
       /\ collisions[k].penetration = 5 * Px
  /\ Cardinality({k \in 1..Len(collisions) : collisions[k].type = "wall"}) = 1

\* C14: a rendered tick whose input has zero units, or whose grid has zero
\* columns or rows, leaves an empty item sequence exposed to collaborators
\* (currentItems), not the items of an earlier non-empty layout
C14_EmptyInputExposesNoItems ==
  [][(RenderStep /\ (Len(InputUnits) = 0 \/ PARAMS.columns <= 0 \/ PARAMS.rows <= 0)) =>
       currentItems' = <<>>]_vars

(***************************************************************************)
(* transforms/index.js: the position channel contained to the cell         *)
(***************************************************************************)
\* configured amplitudes (pixels, or percent of the canvas in travel mode)
\* within the range the preset schema admits, and glyph sizes below and
\* above the 30px cell
ContainedAmplitudes == {-200, -20, 0, 10, 200}
ContainedFontSizes == {20, 60}

InitContain ==
  /\ \E amplitude \in ContainedAmplitudes, fontSize \in ContainedFontSizes,
        mode \in {"oscillate", "travel"}, curve \in CurveNames :
       PARAMS = [DefaultParams EXCEPT !.positionEnabled = TRUE, !.containToCell = TRUE,
                                      !.scaleEnabled = FALSE,
                                      !.positionMode = mode, !.positionCurve = curve,
                                      !.positionAmplitudeX = amplitude,
                                      !.positionAmplitudeY = amplitude,
                                      !.fontSize = fontSize]
  /\ width = 60
  /\ height = 60
  /\ time = 0
  /\ gridCache = <<>>
  /\ gridCacheId = 0
  /\ gridCacheKey = Null
  /\ spatialPhaseCacheKey = Null
  /\ needsRedraw = TRUE
  /\ isExporting = FALSE
  /\ currentItemsSet = FALSE
  /\ collisionStates = <<>>
  /\ collisions = <<>>
  /\ changes = 0
  /\ op = <<"init", "">>
  /\ spatialHash = SpatialHash(HashCellSize(PARAMS), width * Px, height * Px)
  /\ customPresets = <<>>
  /\ InitClasses

NextContain == draw

SpecContain == InitContain /\ [][NextContain]_vars

\* max(0, cellSize / 2 - fontSize / 2) on one axis
ContainedLimit(axis, item) ==
  Max(0, (IF axis = "x" THEN item.cellWidth ELSE item.cellHeight) \div 2
         - (PARAMS.fontSize * Px) \div 2)

\* C15: with containToCell on, in oscillate and travel mode and for every
\* configured amplitude, the clamped amplitude of each axis lies within
\* [0, max(0, cellSize / 2 - fontSize / 2)], and the magnitude of the
\* position offset of each item does not exceed that limit
C15_ContainedAmplitudeWithinCell ==
  \A i \in 1..Len(gridCache) :
    (HasTransform(gridCache[i]) /\ PARAMS.containToCell /\ PARAMS.positionEnabled) =>
      LET item == gridCache[i]
          transformed == item.transformed[1]
      IN  /\ 0 <= Amplitude("x", item, PARAMS)
          /\ Amplitude("x", item, PARAMS) <= ContainedLimit("x", item)
          /\ 0 <= Amplitude("y", item, PARAMS)
          /\ Amplitude("y", item, PARAMS) <= ContainedLimit("y", item)
          /\ Abs(transformed.x - item.x) <= ContainedLimit("x", item)
          /\ Abs(transformed.y - item.y) <= ContainedLimit("y", item)

(***************************************************************************)
(* main.js: createGrid on its own, over texts, modes, distributions, grid  *)
(* shapes and canvas sizes                                                 *)
(***************************************************************************)
MaxColumns == 3
MaxRows == 3

\* no input, fewer units than cells, a space among the letters, more units
\* than the cells of a small grid, and three words
GridTexts == {<<>>, <<"a">>, <<"a", "b">>, <<"a", " ", "b">>,
              <<"a", "b", "c", "d", "e">>, <<"a", "b", " ", "c", " ", "d">>}
TextDistributions == {"repeat", "split-letter", "split-word"}

InitGrid ==
  /\ \E text \in GridTexts, mode \in {"letter", "word"},
        textDistribution \in TextDistributions,
        columns \in 1..MaxColumns, rows \in 1..MaxRows, tracking \in {0, 5} :
       PARAMS = [DefaultParams EXCEPT !.text = text, !.mode = mode,
                                      !.textDistribution = textDistribution,
                                      !.columns = columns, !.rows = rows,
                                      !.tracking = tracking]
  /\ \E size \in CanvasSizes : width = size[1] /\ height = size[2]
  /\ time = 0
  /\ gridCache = <<>>
  /\ gridCacheId = 0
  /\ gridCacheKey = Null
  /\ spatialPhaseCacheKey = Null
  /\ needsRedraw = TRUE
  /\ isExporting = FALSE
  /\ currentItemsSet = FALSE
  /\ collisionStates = <<>>
  /\ collisions = <<>>
  /\ changes = 0
  /\ op = <<"init", "">>
  /\ spatialHash = SpatialHash(HashCellSize(PARAMS), width * Px, height * Px)
  /\ customPresets = <<>>
  /\ InitClasses

\* gridCache = createGrid(chars, PARAMS, p.width, p.height)
CreateGrid ==
  /\ gridCache' = createGrid(parseText(PARAMS.text, PARAMS.mode), PARAMS, width, height)
  /\ op' = <<"createGrid", "">>
  /\ UNCHANGED <<PARAMS, width, height, time, gridCacheId, gridCacheKey, spatialPhaseCacheKey,
                 needsRedraw, isExporting, currentItemsSet, physicsVars, changes, otherVars>>

NextGrid == CreateGrid

SpecGrid == InitGrid /\ [][NextGrid]_vars

Created == op = <<"createGrid", "">>

\* C16: under 'repeat' with n >= 1 units createGrid gives rows * columns
\* items in row-major order, the item of cell (row, col) showing unit
\* (row * columns + col) mod n
C16_RepeatFillsEveryCell ==
  (Created /\ PARAMS.textDistribution = "repeat" /\ Len(InputUnits) >= 1) =>
    /\ Len(gridCache) = PARAMS.rows * PARAMS.columns
    /\ \A k \in 0..(Len(gridCache) - 1) :
         /\ gridCache[k + 1].row = k \div PARAMS.columns
         /\ gridCache[k + 1].col = k % PARAMS.columns
         /\ gridCache[k + 1].char =
              InputUnits[((gridCache[k + 1].row * PARAMS.columns + gridCache[k + 1].col)
                          % Len(InputUnits)) + 1]

\* a repeat grid with more cells than units, so that the input starts over
C16_Witness ==
  /\ Created
  /\ PARAMS.textDistribution = "repeat"
  /\ Len(InputUnits) = 2
  /\ Len(gridCache) = 6
  /\ gridCache[3].char = InputUnits[1]

\* C17: under 'split-letter' with n units createGrid gives min(n, rows *
\* columns) items: the k-th unit in the k-th cell in row-major order, every
\* unit at most once, no item for the cells beyond the input
C17_SplitLetterOneUnitPerCell ==
  (Created /\ PARAMS.textDistribution = "split-letter") =>
    /\ Len(gridCache) = Min(Len(InputUnits), PARAMS.rows * PARAMS.columns)
    /\ \A k \in 0..(Len(gridCache) - 1) :
         /\ gridCache[k + 1].row = k \div PARAMS.columns
         /\ gridCache[k + 1].col = k % PARAMS.columns
         /\ gridCache[k + 1].char = InputUnits[k + 1]

\* a split-letter grid with fewer units than cells: cells are left out
C17_Witness ==
  /\ Created
  /\ PARAMS.textDistribution = "split-letter"
  /\ Len(InputUnits) = 3
  /\ PARAMS.rows * PARAMS.columns = 6
  /\ Len(gridCache) = 3

\* C18: under 'split-word' with n words createGrid gives min(n, rows)
\* items: word r in the cell (row r, column 0), and no item in another column
C18_SplitWordFirstColumn ==
  (Created /\ PARAMS.textDistribution = "split-word") =>
    /\ Len(gridCache) = Min(Len(InputUnits), PARAMS.rows)
    /\ \A r \in 0..(Len(gridCache) - 1) :
         /\ gridCache[r + 1].row = r
         /\ gridCache[r + 1].col = 0
         /\ gridCache[r + 1].char = InputUnits[r + 1]

\* three words on a grid of two rows and several columns: two items
C18_Witness ==
  /\ Created
  /\ PARAMS.textDistribution = "split-word"
  /\ PARAMS.mode = "word"
  /\ Len(InputUnits) = 3
  /\ PARAMS.rows = 2
  /\ PARAMS.columns = 3
  /\ Len(gridCache) = 2

\* C20: every item of a grid lies in a cell of the grid (0 <= row <
\* totalRows = rows, 0 <= col < totalCols = columns) with a positive cell
\* width and height, and no two items lie in the same cell
C20_ItemsInDistinctCells ==
  Created =>
    /\ \A i \in 1..Len(gridCache) :
         /\ gridCache[i].totalRows = PARAMS.rows
         /\ gridCache[i].totalCols = PARAMS.columns
         /\ 0 <= gridCache[i].row /\ gridCache[i].row < gridCache[i].totalRows
         /\ 0 <= gridCache[i].col /\ gridCache[i].col < gridCache[i].totalCols
         /\ gridCache[i].cellWidth > 0
         /\ gridCache[i].cellHeight > 0
    /\ \A i, j \in 1..Len(gridCache) :
         (gridCache[i].row = gridCache[j].row /\ gridCache[i].col = gridCache[j].col) => i = j

\* a full grid of one row and three columns
C20_Witness ==
  /\ Created
  /\ PARAMS.rows = 1
  /\ PARAMS.columns = 3
  /\ Len(gridCache) = 3

(***************************************************************************)
(* transforms/index.js: getSpatialPhase over patterns, directions, grid    *)
(* shapes, cycles and phase offsets, on the items of a full grid           *)
(***************************************************************************)
SequencePatterns == {"linear", "centerOut", "wave", "spiral", "random"}
LinearDirections == {"horizontal", "vertical", "diagonal"}

InitPhase ==
  /\ \E sequencePattern \in SequencePatterns, linearDirection \in LinearDirections,
        columns \in 1..MaxColumns, rows \in 1..MaxRows, waveCycles \in {1, 2},
        rowPhaseOffset \in {0, 500}, colPhaseOffset \in {0, 250},
        spiralDensity \in {500, 2000} :
       PARAMS = [DefaultParams EXCEPT !.text = <<"a">>,
                                      !.sequencePattern = sequencePattern,
                                      !.linearDirection = linearDirection,
                                      !.columns = columns, !.rows = rows,
                                      !.waveCycles = waveCycles,
                                      !.rowPhaseOffset = rowPhaseOffset,
                                      !.colPhaseOffset = colPhaseOffset,
                                      !.spiralDensity = spiralDensity]
  /\ width = 60
  /\ height = 60
  /\ time = 0
  /\ gridCache = <<>>
  /\ gridCacheId = 0
  /\ gridCacheKey = Null
  /\ spatialPhaseCacheKey = Null
  /\ needsRedraw = TRUE
  /\ isExporting = FALSE
  /\ currentItemsSet = FALSE
  /\ collisionStates = <<>>
  /\ collisions = <<>>
  /\ changes = 0
  /\ op = <<"init", "">>
  /\ spatialHash = SpatialHash(HashCellSize(PARAMS), width * Px, height * Px)
  /\ customPresets = <<>>
  /\ InitClasses

\* gridCache = createGrid(...); precomputeSpatialPhases(gridCache, PARAMS)
CreateGridWithPhases ==
  /\ gridCache' = precomputeSpatialPhases(
                     createGrid(parseText(PARAMS.text, PARAMS.mode), PARAMS, width, height),
                     PARAMS)
  /\ op' = <<"precomputeSpatialPhases", "">>
  /\ UNCHANGED <<PARAMS, width, height, time, gridCacheId, gridCacheKey, spatialPhaseCacheKey,
                 needsRedraw, isExporting, currentItemsSet, physicsVars, changes, otherVars>>

NextPhase == CreateGridWithPhases

SpecPhase == InitPhase /\ [][NextPhase]_vars

Precomputed == op = <<"precomputeSpatialPhases", "">>

\* the item lies at the anchor of the pattern: column 0, row 0 or cell (0, 0)
\* for linear and wave by direction, cell (0, 0) for random, the centre cell
\* of the grid for centerOut and spiral
AtAnchor(item) ==
  LET atCentre == 2 * item.row = item.totalRows - 1 /\ 2 * item.col = item.totalCols - 1
  IN  CASE PARAMS.sequencePattern \in {"linear", "wave"} ->
             (CASE PARAMS.linearDirection = "horizontal" -> item.col = 0
                [] PARAMS.linearDirection = "vertical" -> item.row = 0
                [] OTHER -> item.row = 0 /\ item.col = 0)
        [] PARAMS.sequencePattern = "random" -> item.row = 0 /\ item.col = 0
        [] OTHER -> atCentre

\* C21: with rowPhaseOffset = colPhaseOffset = 0 the spatial phase of every
\* item at the anchor of the sequence pattern is 0, for every pattern,
\* direction and grid size
C21_AnchorPhaseZero ==
  (Precomputed /\ PARAMS.rowPhaseOffset = 0 /\ PARAMS.colPhaseOffset = 0) =>
    \A i \in 1..Len(gridCache) :
      AtAnchor(gridCache[i]) => gridCache[i].spatialPhase = <<0>>

(***************************************************************************)
(* main.js, transforms/index.js: the preview with every motion channel and *)
(* collision switched off                                                  *)
(***************************************************************************)
InitStill ==
  /\ \E sequencePattern \in SequencePatterns, columns \in 1..MaxColumns, rows \in 1..MaxRows,
        tracking \in {0, 5} :
       PARAMS = [DefaultParams EXCEPT !.text = <<"a">>,
                                      !.sequencePattern = sequencePattern,
                                      !.columns = columns, !.rows = rows,
                                      !.tracking = tracking,
                                      !.scaleEnabled = FALSE, !.positionEnabled = FALSE,
                                      !.opacityEnabled = FALSE, !.jitterEnabled = FALSE,
                                      !.collisionEnabled = FALSE]
  /\ width = 60
  /\ height = 60
  /\ time = 0
  /\ gridCache = <<>>
  /\ gridCacheId = 0
  /\ gridCacheKey = Null
  /\ spatialPhaseCacheKey = Null
  /\ needsRedraw = TRUE
  /\ isExporting = FALSE
  /\ currentItemsSet = FALSE
  /\ collisionStates = <<>>
  /\ collisions = <<>>
  /\ changes = 0
  /\ op = <<"init", "">>
  /\ spatialHash = SpatialHash(HashCellSize(PARAMS), width * Px, height * Px)
  /\ customPresets = <<>>
  /\ InitClasses

NextStill == draw

SpecStill == InitStill /\ [][NextStill]_vars

AllChannelsOff ==
  /\ ~PARAMS.scaleEnabled /\ ~PARAMS.positionEnabled
  /\ ~PARAMS.opacityEnabled /\ ~PARAMS.jitterEnabled /\ ~PARAMS.collisionEnabled

\* C22: with scale, position, opacity, jitter and collision off, the
\* transform computed for every item at every time value is x = base x,
\* y = base y, scale = 1, opacity = 1 and rotation = 0
C22_StillTransformIsBase ==
  AllChannelsOff =>
    \A i \in 1..Len(gridCache) :
      HasTransform(gridCache[i]) =>
        /\ gridCache[i].transformed[1].x = gridCache[i].x
        /\ gridCache[i].transformed[1].y = gridCache[i].y
        /\ gridCache[i].transformed[1].scale = One
        /\ gridCache[i].transformed[1].opacity = One
        /\ gridCache[i].transformed[1].rotation = <<0>>

(***************************************************************************)
(* presets.js: PresetSchema, importPresetJSON, saveCustomPreset,           *)
(* deleteCustomPreset                                                      *)
(* A JSON text is the pair of whether JSON.parse accepts it and the value  *)
(* parsed; an object is a record whose keys hold <<>> when absent and      *)
(* <<value>> when present; a preset name is the sequence of its characters.*)
(***************************************************************************)
LongName == [i \in 1..101 |-> "x"]
PresetNames == {<<>>, <<"A">>, <<"B">>, LongName}

\* params objects: nothing set, known keys within and outside their
\* ranges, a value outside the enumeration, and a key the schema does not know
PresetParamObjects ==
  {[scaleMin |-> <<>>, scaleCurve |-> <<>>, unknownKey |-> <<>>],
   [scaleMin |-> <<500>>, scaleCurve |-> <<"sine">>, unknownKey |-> <<1>>],
   [scaleMin |-> <<7 * One>>, scaleCurve |-> <<"sine">>, unknownKey |-> <<>>],
   [scaleMin |-> <<500>>, scaleCurve |-> <<"zigzag">>, unknownKey |-> <<>>]}

JsonValues ==
  {[kind |-> "null"], [kind |-> "array"]}
  \cup {[kind |-> "object", name |-> name, params |-> params, unknownKey |-> unknownKey] :
          name \in {<<>>} \cup {<<n>> : n \in PresetNames},
          params \in {<<>>} \cup {<<o>> : o \in PresetParamObjects},
          unknownKey \in {<<>>, <<1>>}}

JsonTexts == {[wellFormed |-> FALSE]} \cup {[wellFormed |-> TRUE, value |-> v] : v \in JsonValues}

\* z.enum(['sine', 'bounce', 'elastic', 'snap', 'smooth'])
PresetCurves == {"sine", "bounce", "elastic", "snap", "smooth"}

\* PresetSchema.safeParse(data).success
PresetSchemaAccepts(data) ==
  /\ data.kind = "object"
  /\ data.name # <<>>
  /\ 1 <= Len(data.name[1]) /\ Len(data.name[1]) <= 100
  /\ data.params # <<>>
  /\ LET params == data.params[1]
     IN  /\ params.scaleMin # <<>> => (0 <= params.scaleMin[1] /\ params.scaleMin[1] <= 3 * One)
         /\ params.scaleCurve # <<>> => params.scaleCurve[1] \in PresetCurves

\* result.data: the keys of the schema; params passes its unknown keys through
PresetSchemaData(data) == [name |-> data.name[1], params |-> data.params[1]]

\* customPresets.filter((p) => p.name !== name)
WithoutName(presets, name) == SelectSeq(presets, LAMBDA preset : preset.name # name)

\* an import that appends without removing the preset of the same name
importPresetJSON_NoFilter(presets, jsonString) ==
  IF ~jsonString.wellFormed
  THEN [result |-> [success |-> FALSE, error |-> <<"Invalid JSON">>], customPresets |-> presets]
  ELSE IF ~PresetSchemaAccepts(jsonString.value)
  THEN [result |-> [success |-> FALSE, error |-> <<"Invalid preset">>], customPresets |-> presets]
  ELSE LET data == PresetSchemaData(jsonString.value)
       IN  [result |-> [success |-> TRUE, error |-> <<>>],
            customPresets |-> Append(presets, data)]

\* the value returned and the list left behind; JSON.parse throws on a text
\* that is not JSON and the catch returns the failure
importPresetJSON(presets, jsonString) ==
  IF ~jsonString.wellFormed
  THEN [result |-> [success |-> FALSE, error |-> <<"Invalid JSON">>], customPresets |-> presets]
  ELSE IF ~PresetSchemaAccepts(jsonString.value)
  THEN [result |-> [success |-> FALSE, error |-> <<"Invalid preset">>], customPresets |-> presets]
  ELSE LET data == PresetSchemaData(jsonString.value)
       IN  [result |-> [success |-> TRUE, error |-> <<>>],
            customPresets |-> Append(WithoutName(presets, data.name), data)]

\* the params saveCustomPreset copies from the live parameters
SavedParams(currentParams) ==
  [scaleMin |-> <<currentParams.scaleMin>>, scaleCurve |-> <<currentParams.scaleCurve>>,
   unknownKey |-> <<>>]

saveCustomPreset(presets, name, currentParams) ==
  Append(WithoutName(presets, name), [name |-> name, params |-> SavedParams(currentParams)])

\* splice of the first preset of that name, if any
deleteCustomPreset(presets, name) ==
  IF \E i \in 1..Len(presets) : presets[i].name = name
  THEN LET index == CHOOSE i \in 1..Len(presets) :
                      presets[i].name = name /\ \A j \in 1..(i - 1) : presets[j].name # name
       IN  [i \in 1..(Len(presets) - 1) |-> IF i < index THEN presets[i] ELSE presets[i + 1]]
  ELSE presets

InitPresets ==
  /\ PARAMS = DefaultParams
  /\ width = 60
  /\ height = 60
  /\ time = 0
  /\ gridCache = <<>>
  /\ gridCacheId = 0
  /\ gridCacheKey = Null
  /\ spatialPhaseCacheKey = Null
  /\ needsRedraw = TRUE
  /\ isExporting = FALSE
  /\ currentItemsSet = FALSE
  /\ collisionStates = <<>>
  /\ collisions = <<>>
  /\ changes = 0
  /\ op = <<"init", <<>>>>
  /\ spatialHash = SpatialHash(HashCellSize(PARAMS), width * Px, height * Px)
  /\ customPresets = <<>>
  /\ InitClasses

presetsUnchanged == <<PARAMS, width, height, time, gridCache, gridCacheId, gridCacheKey,
                      spatialPhaseCacheKey, needsRedraw, isExporting, currentItemsSet,
                      collisionStates, collisions, changes, spatialHash, vectorVars>>

ImportPresetJSON ==
  /\ \E jsonString \in JsonTexts :
       LET imported == importPresetJSON(customPresets, jsonString)
       IN  /\ customPresets' = imported.customPresets
           /\ op' = <<"importPresetJSON", <<jsonString, imported.result>>>>
  /\ UNCHANGED presetsUnchanged

SaveCustomPreset ==
  /\ \E name \in {<<"A">>, <<"B">>} :
       /\ customPresets' = saveCustomPreset(customPresets, name, PARAMS)
       /\ op' = <<"saveCustomPreset", <<>>>>
  /\ UNCHANGED presetsUnchanged

DeleteCustomPreset ==
  /\ \E name \in {<<"A">>, <<"B">>} :
       /\ customPresets' = deleteCustomPreset(customPresets, name)
       /\ op' = <<"deleteCustomPreset", <<>>>>
  /\ UNCHANGED presetsUnchanged

NextPresets == ImportPresetJSON \/ SaveCustomPreset \/ DeleteCustomPreset

SpecPresets == InitPresets /\ [][NextPresets]_vars

\* the text is JSON for an object with a name of 1 to 100 characters and a
\* params object whose known keys hold values of their ranges
IsValidPreset(jsonString) ==
  /\ jsonString.wellFormed
  /\ jsonString.value.kind = "object"
  /\ jsonString.value.name # <<>>
  /\ Len(jsonString.value.name[1]) \in 1..100
  /\ jsonString.value.params # <<>>
  /\ jsonString.value.params[1].scaleMin \in {<<>>} \cup {<<v>> : v \in 0..(3 * One)}
  /\ jsonString.value.params[1].scaleCurve \in {<<>>} \cup {<<c>> : c \in PresetCurves}

NamesUnique(presets) ==
  \A i, j \in 1..Len(presets) : presets[i].name = presets[j].name => i = j

\* C23: importPresetJSON of a text that is not JSON, or of JSON that fails
\* the preset schema, returns success false with an error and leaves the
\* custom presets and the live parameters as they were; a valid preset is
\* stored in place of any custom preset of its name, and the names of the
\* custom presets stay unique
C23_ImportStoresOnlyValidPresets ==
  [][op'[1] = "importPresetJSON" =>
       LET jsonString == op'[2][1]
           result == op'[2][2]
       IN  /\ PARAMS' = PARAMS
           /\ NamesUnique(customPresets) => NamesUnique(customPresets')
           /\ IF IsValidPreset(jsonString)
              THEN /\ result.success
                   /\ \E i \in 1..Len(customPresets') :
                        /\ customPresets'[i].name = jsonString.value.name[1]
                        /\ customPresets'[i].params = jsonString.value.params[1]
                   /\ \A preset \in SeqRange(customPresets) :
                        preset.name # jsonString.value.name[1] =>
                          preset \in SeqRange(customPresets')
                   /\ Len(customPresets') =
                        Len(WithoutName(customPresets, jsonString.value.name[1])) + 1
              ELSE /\ ~result.success
                   /\ result.error # <<>>
                   /\ customPresets' = customPresets]_vars

\* an import that replaced the custom preset of its name by one with other
\* params, next to a preset of another name
C23_Witness ==
  /\ op[1] = "importPresetJSON"
  /\ op[2][2].success
  /\ Len(customPresets) = 2
  /\ customPresets[1].name = <<"B">>
  /\ customPresets[2].name = <<"A">>
  /\ customPresets[2].params.unknownKey = <<1>>

(***************************************************************************)
(* The resolver handed whole batches of records, in any order              *)
(***************************************************************************)
\* resolver.resolveCollisions(collisions, items, time, params) on the
\* detected records in some order
ResolveInOrder ==
  /\ collisions # <<>>
  /\ \E order \in Permutations(1..Len(collisions)) :
       LET batch == [k \in 1..Len(collisions) |-> collisions[order[k]]]
       IN  /\ collisionStates' = resolveCollisions(collisionStates, batch, time, PARAMS)
           /\ op' = <<"resolveCollisions", batch>>
  /\ collisions' = <<>>
  /\ UNCHANGED otherVars
  /\ UNCHANGED <<pipelineVars, time, gridCache>>

NextResolver ==
  \/ \E i \in 1..Len(gridCache), pose \in Poses : Retransform(i, pose[1], pose[2])
  \/ AdvanceClock
  \/ Detect
  \/ StartResponse
  \/ ResolveInOrder
  \/ Update
  \/ Clear

SpecResolver == InitPhysics /\ [][NextResolver]_vars

\* the records a step hands to the resolver
Reported == IF op'[1] = "resolveCollisions" THEN op'[2]
            ELSE IF op'[1] = "startCollisionResponse" THEN <<Head(collisions)>>
            ELSE <<>>

\* the penetrations reported for item i by the step
ReportedFor(i) ==
  {Reported[k].penetration : k \in {n \in 1..Len(Reported) : i \in Members(Reported[n])}}

Largest(S) == CHOOSE v \in S : \A w \in S : w <= v

IsActive(states, i) == i \in DOMAIN states /\ states[i].active

\* C24: the penetration stored in an active collision state never decreases
\* while the state stays active, and after every batch of records (in any
\* order) and every single record it is the largest penetration reported for
\* the item since its state became active: the largest of the batch and of
\* what an already active state held
C24_StoredPenetrationIsLargestReported ==
  [][/\ \A i \in DOMAIN collisionStates :
          (collisionStates[i].active /\ IsActive(collisionStates', i)) =>
            collisionStates'[i].penetration >= collisionStates[i].penetration
     /\ \A i \in DOMAIN collisionStates' :
          IF ReportedFor(i) = {}
          THEN i \in DOMAIN collisionStates
               /\ collisionStates'[i].penetration = collisionStates[i].penetration
          ELSE /\ collisionStates'[i].active
               /\ collisionStates'[i].penetration =
                    Largest(ReportedFor(i) \cup
                            (IF IsActive(collisionStates, i)
                             THEN {collisionStates[i].penetration} ELSE {}))]_vars

\* a batch has been resolved in which an item was reported twice with
\* different penetrations, the smaller one last, and holds the larger one
C24_Witness ==
  /\ op[1] = "resolveCollisions"
  /\ \E i \in DOMAIN collisionStates :
       \E k, n \in 1..Len(op[2]) :
         /\ k < n
         /\ i \in Members(op[2][k]) /\ i \in Members(op[2][n])
         /\ op[2][n].penetration < op[2][k].penetration
         /\ collisionStates[i].active
         /\ collisionStates[i].penetration = op[2][k].penetration

(***************************************************************************)
(* Responses that last several ticks, under each deflection curve          *)
(***************************************************************************)
ResponseCurves == {"sine", "bounce", "elastic", "snap", "smooth", "noise"}

InitResponse ==
  /\ \E curve \in ResponseCurves :
       PARAMS = [PhysicsParams EXCEPT !.globalSpeed = One, !.positionCurve = curve]
  /\ width = 120
  /\ height = 60
  /\ time = 0
  /\ gridCache = [i \in 1..Len(InitialSpots) |-> Body(i - 1, InitialSpots[i], One)]
  /\ gridCacheId = 0
  /\ gridCacheKey = Null
  /\ spatialPhaseCacheKey = Null
  /\ needsRedraw = TRUE
  /\ isExporting = FALSE
  /\ currentItemsSet = TRUE
  /\ collisionStates = <<>>
  /\ collisions = <<>>
  /\ changes = 0
  /\ op = <<"init", "">>
  /\ spatialHash = SpatialHash(HashCellSize(PARAMS), width * Px, height * Px)
  /\ customPresets = <<>>
  /\ InitClasses

NextResponse ==
  \/ AdvanceClock
  \/ Detect
  \/ StartResponse
  \/ Update
  \/ Clear

SpecResponse == InitResponse /\ [][NextResponse]_vars

Zero == [x |-> 0, y |-> 0]

\* C25: after every updateCollisionResponses every item without a state or
\* with an inactive state has the collision offset (0, 0), the update that
\* deactivates a state included, and an item has another offset only if its
\* state is active and its elapsed time is below the duration
C25_OffsetZeroUnlessResponding ==
  [][UpdateStep =>
       \A k \in 1..Len(gridCache') :
         /\ gridCache'[k].collisionOffset # <<>>
         /\ ~IsActive(collisionStates', k - 1) => gridCache'[k].collisionOffset = <<Zero>>
         /\ gridCache'[k].collisionOffset # <<Zero>> =>
              /\ IsActive(collisionStates', k - 1)
              /\ time - collisionStates'[k - 1].startTime < collisionStates'[k - 1].duration]_vars

\* an update has just deactivated the state of one item and zeroed its
\* offset while another item is still being deflected
C25_Witness ==
  /\ op = <<"updateCollisionResponses", "">>
  /\ \E k, n \in 1..Len(gridCache) :
       /\ k - 1 \in DOMAIN collisionStates
       /\ ~collisionStates[k - 1].active
       /\ time - collisionStates[k - 1].startTime = collisionStates[k - 1].duration
       /\ gridCache[k].collisionOffset = <<Zero>>
       /\ IsActive(collisionStates, n - 1)
       /\ gridCache[n].collisionOffset # <<Zero>>

(***************************************************************************)
(* Detection passes over changing item lists, font sizes and canvases      *)
(***************************************************************************)
DetectorFontSizes == {20, 40}
DetectorWidths == {60, 120}

\* an item list of one or two items, each at one of the spots or without a
\* transform yet
DetectorSpots == {<<5, 30>>, <<61, 34>>, <<160, 30>>}
DetectorLists ==
  {<<a>> : a \in {<<>>} \cup {<<spot>> : spot \in DetectorSpots}}
  \cup {<<a, b>> : a \in {<<>>, <<<<5, 30>>>>}, b \in {<<>>} \cup {<<spot>> : spot \in DetectorSpots}}

ItemsAt(list) ==
  [i \in 1..Len(list) |->
     IF list[i] = <<>>
     THEN GridItem(<<"a">>, PhysicsParams, 0, i - 1, 40 * Px, 60 * Px)
     ELSE Body(i - 1, list[i][1], One)]

\* the caller's items, font size and canvas change between two passes
Relayout ==
  /\ \E list \in DetectorLists, fontSize \in DetectorFontSizes, w \in DetectorWidths :
       /\ gridCache' = ItemsAt(list)
       /\ PARAMS' = [PARAMS EXCEPT !.fontSize = fontSize]
       /\ width' = w
  /\ op' = <<"relayout", "">>
  /\ UNCHANGED otherVars
  /\ UNCHANGED <<height, time, gridCacheId, gridCacheKey, spatialPhaseCacheKey, needsRedraw,
                 isExporting, currentItemsSet, physicsVars, changes>>

NextDetector == Relayout \/ Detect

SpecDetector == InitPhysics /\ [][NextDetector]_vars

\* the cells <<col, row>> on and around the canvases of the passes
CellsAround == (-2..8) \X (-2..8)

\* the hash entries <<cell, index>> of the items of a list that have a
\* transform: every cell under the bounding square of the item's circle
EntriesOf(items, params, cellSize) ==
  {e \in CellsAround \X (0..(Len(items) - 1)) :
     /\ HasTransform(items[e[2] + 1])
     /\ LET t == items[e[2] + 1].transformed[1]
        IN  Overlaps(cellSize, <<t.x, t.y, getItemRadius(items[e[2] + 1], params)>>, e[1])}

\* C26: whenever a detection pass queries the hash, the hash holds exactly
\* the items of this pass that have a transform, under the cells of their
\* current positions and radii, and none of an earlier pass, and its cell
\* size is the current fontSize * 3
C26_HashHoldsCurrentPass ==
  [][DetectStep =>
       /\ detector'.spatialHash # <<>>
       /\ detector'.spatialHash[1].cellSize = PARAMS.fontSize * 3 * Px
       /\ detector'.spatialHash[1].cells =
            EntriesOf(gridCache, PARAMS, PARAMS.fontSize * 3 * Px)]_vars

\* a pass has run on one item with a transform after the font size and the
\* canvas had changed
C26_Witness ==
  /\ op = <<"detectCollisions", "">>
  /\ detector.spatialHash # <<>>
  /\ detector.spatialHash[1].cellSize = 40 * 3 * Px
  /\ Len(gridCache) = 1
  /\ detector.spatialHash[1].cells # {}
  /\ width = 60

\* the parameters with another sequence pattern
WithPattern(params, pattern) == [params EXCEPT !.sequencePattern = pattern]

\* C27: for every item, grid size, direction, number of wave cycles and row
\* and column phase offsets, getSpatialPhase returns under the pattern
\* 'wave' exactly the phase it returns under 'linear'
C27_WaveIsLinear ==
  \A k \in 1..Len(gridCache) :
    getSpatialPhase(gridCache[k], WithPattern(PARAMS, "wave"))
      = getSpatialPhase(gridCache[k], WithPattern(PARAMS, "linear"))

\* the phases of a grid of several rows and columns have been computed
\* under 'wave' in the vertical direction with a row offset, and the last
\* item holds a phase other than 0
C27_Witness ==
  /\ op = <<"precomputeSpatialPhases", "">>
  /\ PARAMS.sequencePattern = "wave"
  /\ PARAMS.linearDirection = "vertical"
  /\ PARAMS.rowPhaseOffset # 0
  /\ PARAMS.columns = MaxColumns /\ PARAMS.rows > 1
  /\ Len(gridCache) > 1
  /\ gridCache[Len(gridCache)].spatialPhase # <<0>>
  /\ gridCache[Len(gridCache)].spatialPhase
       = <<getSpatialPhase(gridCache[Len(gridCache)], WithPattern(PARAMS, "linear"))>>

(***************************************************************************)
(* The MP4 export: the Export MP4 button (unnamed/part_003), handleExport  *)
(* (main.js), recordMP4 (export/mp4.js), with the preview running          *)
(* pc is the await at which recordMP4 is suspended; progress is in         *)
(* thousandths.                                                            *)
(***************************************************************************)
MaxFrames == 2

exportUnchanged == <<PARAMS, width, height, time, gridCache, gridCacheId, gridCacheKey,
                     spatialPhaseCacheKey, needsRedraw, currentItemsSet, physicsVars, changes,
                     spatialHash, customPresets, detector, fontManager, fontCalls, glyphCache>>

\* onProgress(progress) of the button: null is <<>>
onProgress(exportState, progress) ==
  IF progress = Null
  THEN [progress |-> 0, isExporting |-> FALSE]
  ELSE [exportState EXCEPT !.progress = progress[1]]

\* click on Export MP4: the handler returns if an export is under way, else
\* handleExport('mp4', onProgress) runs up to the first await of recordMP4
ClickExportMP4 ==
  /\ ~mp4Export.exportState.isExporting
  /\ \E totalFrames \in 0..MaxFrames :
       mp4Export' = [pc |-> "ensureFontLoaded", frame |-> 0, totalFrames |-> totalFrames,
                     exportState |-> [mp4Export.exportState EXCEPT !.isExporting = TRUE]]
  /\ isExporting' = TRUE
  /\ op' = <<"handleExport", "mp4">>
  /\ UNCHANGED exportUnchanged

\* recordMP4 from the font to the first frame: encoder set up
RecordSetup ==
  /\ mp4Export.pc = "ensureFontLoaded"
  /\ mp4Export' = [mp4Export EXCEPT !.pc = "frames"]
  /\ op' = <<"recordMP4", "configure">>
  /\ UNCHANGED isExporting
  /\ UNCHANGED exportUnchanged

\* one pass of the frame loop: progress reported, frame rendered and encoded
RecordFrame ==
  /\ mp4Export.pc = "frames"
  /\ mp4Export.frame < mp4Export.totalFrames
  /\ mp4Export' =
       [mp4Export EXCEPT
          !.exportState = onProgress(mp4Export.exportState,
                                     <<(mp4Export.frame * One) \div mp4Export.totalFrames>>),
          !.frame = mp4Export.frame + 1]
  /\ op' = <<"recordMP4", "frame">>
  /\ UNCHANGED isExporting
  /\ UNCHANGED exportUnchanged

\* the loop is over: await encoder.flush()
RecordFlush ==
  /\ mp4Export.pc = "frames"
  /\ mp4Export.frame >= mp4Export.totalFrames
  /\ mp4Export' = [mp4Export EXCEPT !.pc = "flush"]
  /\ op' = <<"recordMP4", "flush">>
  /\ UNCHANGED isExporting
  /\ UNCHANGED exportUnchanged

\* the finally of handleExport
ExportFinally(outcome) ==
  /\ isExporting' = FALSE
  /\ mp4Export' = [NoExport EXCEPT !.exportState = onProgress(mp4Export.exportState, Null)]
  /\ op' = <<"handleExport finally", outcome>>
  /\ UNCHANGED exportUnchanged

\* recordMP4 returns the blob, downloadBlob, then the finally
ExportCompletes ==
  /\ mp4Export.pc = "flush"
  /\ ExportFinally("downloaded")

\* recordMP4 (no VideoEncoder, a frame that cannot be rendered or encoded,
\* the flush) or downloadBlob throws: the catch, then the finally
ExportThrows ==
  /\ mp4Export.pc \in {"ensureFontLoaded", "frames", "flush"}
  /\ ExportFinally("failed")

NextExport ==
  \/ draw
  \/ markNeedsRedraw
  \/ windowResized
  \/ ClickExportMP4
  \/ RecordSetup
  \/ RecordFrame
  \/ RecordFlush
  \/ ExportCompletes
  \/ ExportThrows

SpecExport == Init /\ [][NextExport]_vars

ExportUnderWay == mp4Export.pc # "idle"

\* C28: from the start of an MP4 export until it completes or fails, a
\* preview draw tick renders nothing and leaves the preview clock as it is;
\* whenever the export finishes, by completing or by a throw, isExporting is
\* false again and the progress callback has been told that the export ended
C28_PreviewPausedDuringExport ==
  [][/\ (ExportUnderWay /\ op' = <<"draw", "">>) =>
          UNCHANGED <<time, gridCache, gridCacheId, gridCacheKey, spatialPhaseCacheKey,
                      currentItemsSet, needsRedraw>>
     /\ (ExportUnderWay /\ mp4Export'.pc # "idle") => isExporting'
     /\ (ExportUnderWay /\ mp4Export'.pc = "idle") =>
          /\ ~isExporting'
          /\ mp4Export'.exportState = [progress |-> 0, isExporting |-> FALSE]]_vars

\* a draw tick has run during an export that has reported progress, with a
\* redraw due
C28_Witness ==
  /\ op = <<"draw", "">>
  /\ isExporting
  /\ needsRedraw
  /\ mp4Export.exportState.progress > 0

(***************************************************************************)
(* vector/FontManager.js: loadFont                                         *)
(* A promise of _loadFontInternal is a record of fontCalls.promises, named *)
(* by its position; the font it is fulfilled with carries the same number. *)
(* A call of loadFont is a record of fontCalls.calls: "await" while the    *)
(* call that started the load is suspended, "shared" once it returned the  *)
(* promise of a load under way, "cached" once it returned a loaded font.   *)
(***************************************************************************)
MaxCalls == 3
FontNames == {"Inter", "Upload"}

Has(map, key) == key \in DOMAIN map

MapSet(map, key, value) ==
  [k \in DOMAIN map \cup {key} |-> IF k = key THEN value ELSE map[k]]

MapDelete(map, key) == [k \in DOMAIN map \ {key} |-> map[k]]

\* a loadFont that starts a load whenever the font is not loaded yet
loadFont_NoPendingCheck(fm, fc, fontName) ==
  IF Has(fm.loadedFonts, fontName)
  THEN [fontManager |-> fm,
        fontCalls |-> [fc EXCEPT !.calls =
                         Append(@, [fontName |-> fontName, pc |-> "cached", promise |-> 0,
                                    font |-> fm.loadedFonts[fontName]])]]
  ELSE LET loadPromise == Len(fc.promises) + 1
       IN  [fontManager |-> [fm EXCEPT !.loadingPromises = MapSet(@, fontName, loadPromise)],
            fontCalls |->
              [promises |-> Append(fc.promises, [fontName |-> fontName, state |-> "pending"]),
               calls |-> Append(fc.calls, [fontName |-> fontName, pc |-> "await",
                                           promise |-> loadPromise, font |-> 0])]]

\* loadFont(fontName) up to its return or its await
loadFont(fm, fc, fontName) ==
  IF Has(fm.loadedFonts, fontName)
  THEN [fontManager |-> fm,
        fontCalls |-> [fc EXCEPT !.calls =
                         Append(@, [fontName |-> fontName, pc |-> "cached", promise |-> 0,
                                    font |-> fm.loadedFonts[fontName]])]]
  ELSE IF Has(fm.loadingPromises, fontName)
  THEN [fontManager |-> fm,
        fontCalls |-> [fc EXCEPT !.calls =
                         Append(@, [fontName |-> fontName, pc |-> "shared",
                                    promise |-> fm.loadingPromises[fontName], font |-> 0])]]
  ELSE LET loadPromise == Len(fc.promises) + 1
       IN  [fontManager |-> [fm EXCEPT !.loadingPromises = MapSet(@, fontName, loadPromise)],
            fontCalls |->
              [promises |-> Append(fc.promises, [fontName |-> fontName, state |-> "pending"]),
               calls |-> Append(fc.calls, [fontName |-> fontName, pc |-> "await",
                                           promise |-> loadPromise, font |-> 0])]]

\* the font manager after the try, catch and finally that follow the await
loadFontResumed(fm, fontName, promise, state) ==
  IF state = "fulfilled"
  THEN [loadedFonts |-> MapSet(fm.loadedFonts, fontName, promise),
        loadingPromises |-> MapDelete(fm.loadingPromises, fontName)]
  ELSE [fm EXCEPT !.loadingPromises = MapDelete(@, fontName)]

fontUnchanged == <<PARAMS, width, height, time, gridCache, gridCacheId, gridCacheKey,
                   spatialPhaseCacheKey, needsRedraw, isExporting, currentItemsSet,
                   physicsVars, changes, spatialHash, customPresets, detector, glyphCache,
                   mp4Export>>

\* some caller calls fontManager.loadFont(fontName)
LoadFont ==
  /\ Len(fontCalls.calls) < MaxCalls
  /\ \E fontName \in FontNames :
       LET called == loadFont(fontManager, fontCalls, fontName)
       IN  /\ fontManager' = called.fontManager
           /\ fontCalls' = called.fontCalls
           /\ op' = <<"loadFont", fontName>>
  /\ UNCHANGED fontUnchanged

\* the promise of _loadFontInternal settles: the font arrives, or the load
\* fails (no p5 instance, fetch or parse error)
LoadSettles ==
  /\ \E promise \in 1..Len(fontCalls.promises), state \in {"fulfilled", "rejected"} :
       /\ fontCalls.promises[promise].state = "pending"
       /\ fontCalls' = [fontCalls EXCEPT !.promises[promise].state = state]
       /\ op' = <<"_loadFontInternal", state>>
  /\ UNCHANGED fontManager
  /\ UNCHANGED fontUnchanged

\* the call that started a load resumes after its await
LoadFontResumes ==
  /\ \E c \in 1..Len(fontCalls.calls) :
       LET call == fontCalls.calls[c]
       IN  /\ call.pc = "await"
           /\ fontCalls.promises[call.promise].state # "pending"
           /\ fontManager' = loadFontResumed(fontManager, call.fontName, call.promise,
                                              fontCalls.promises[call.promise].state)
           /\ fontCalls' = [fontCalls EXCEPT !.calls[c].pc =
                                               fontCalls.promises[call.promise].state]
           /\ op' = <<"loadFont resumed", call.fontName>>
  /\ UNCHANGED fontUnchanged

NextFonts == LoadFont \/ LoadSettles \/ LoadFontResumes

SpecFonts == Init /\ [][NextFonts]_vars

\* the loads of a font that have not settled
InFlight(fc, fontName) ==
  {p \in 1..Len(fc.promises) :
     fc.promises[p].fontName = fontName /\ fc.promises[p].state = "pending"}

LastCall(fc) == fc.calls[Len(fc.calls)]

\* C29: under every interleaving of loadFont calls and settling loads there
\* is at most one load of a font in flight; a call made while the load of
\* its font is pending returns the promise of that load and starts none; a
\* call made after the font was loaded returns the cached font and starts
\* none; when the load has failed the pending entry is removed and nothing
\* is cached, and the next call for the font starts a fresh load
C29_OneLoadPerFont ==
  [][/\ \A fontName \in FontNames :
          /\ Cardinality(InFlight(fontCalls', fontName)) <= 1
          /\ InFlight(fontCalls', fontName) # {} =>
               /\ Has(fontManager'.loadingPromises, fontName)
               /\ InFlight(fontCalls', fontName) = {fontManager'.loadingPromises[fontName]}
     /\ op'[1] = "loadFont" =>
          IF Has(fontManager.loadedFonts, op'[2])
          THEN /\ fontCalls'.promises = fontCalls.promises
               /\ LastCall(fontCalls').pc = "cached"
               /\ LastCall(fontCalls').font = fontManager.loadedFonts[op'[2]]
          ELSE IF Has(fontManager.loadingPromises, op'[2])
          THEN /\ fontCalls'.promises = fontCalls.promises
               /\ LastCall(fontCalls').pc = "shared"
               /\ LastCall(fontCalls').promise = fontManager.loadingPromises[op'[2]]
          ELSE /\ Len(fontCalls'.promises) = Len(fontCalls.promises) + 1
               /\ InFlight(fontCalls', op'[2]) = {Len(fontCalls'.promises)}
               /\ LastCall(fontCalls').promise = Len(fontCalls'.promises)
     /\ op'[1] = "loadFont resumed" =>
          /\ ~Has(fontManager'.loadingPromises, op'[2])
          /\ Has(fontManager'.loadedFonts, op'[2])
               <=> \E c \in 1..Len(fontCalls'.calls) :
                     /\ fontCalls'.calls[c].fontName = op'[2]
                     /\ fontCalls'.calls[c].pc = "fulfilled"]_vars

\* after a failed load of a font a later call has started a second load of
\* it, which is in flight
C29_Witness ==
  /\ op[1] = "loadFont"
  /\ \E p, q \in 1..Len(fontCalls.promises) :
       /\ p < q
       /\ fontCalls.promises[p].fontName = op[2]
       /\ fontCalls.promises[q].fontName = op[2]
       /\ fontCalls.promises[p].state = "rejected"
       /\ fontCalls.promises[q].state = "pending"
       /\ fontManager.loadingPromises[op[2]] = q

(***************************************************************************)
(* vector/GlyphCache.js                                                    *)
(* The cache is the sequence of the keys of the Map in insertion order (a  *)
(* value is determined by its key); a key is the sequence of the pieces of *)
(* the template string.                                                    *)
(***************************************************************************)
MaxSizes == 2
MaxLookups == 4

GlyphFonts == {"Inter", "Upload"}
GlyphChars == {"a", "b", "|"}
GlyphSizes == {20, 40}

\* `${fontName}|${char}|${fontSize}|${sampleFactor}` with the default factor
getCacheKey(fontName, char, fontSize) ==
  <<fontName, "|", char, "|", ToString(fontSize), "|", "0.5">>

\* key.split('|'): the pieces between the separators
RECURSIVE SplitRun(_, _, _)
SplitRun(key, k, acc) ==
  IF k > Len(key) THEN acc
  ELSE IF key[k] = "|" THEN SplitRun(key, k + 1, Append(acc, ""))
  ELSE SplitRun(key, k + 1, [acc EXCEPT ![Len(acc)] = key[k]])

Split(key) == SplitRun(key, 1, <<"">>)

Without(cache, key) == SelectSeq(cache, LAMBDA k : k # key)

\* a cache that leaves a key where it is on a hit
getGlyph_NoRefresh(gc, fm, fontName, char, fontSize, throws) ==
  LET key == getCacheKey(fontName, char, fontSize)
  IN  IF key \in SeqRange(gc.cache)
      THEN [gc EXCEPT !.stats.hits = @ + 1]
      ELSE IF ~Has(fm.loadedFonts, fontName) \/ throws
      THEN [gc EXCEPT !.stats.misses = @ + 1]
      ELSE LET added == Append(gc.cache, key)
           IN  [gc EXCEPT !.stats.misses = @ + 1,
                          !.cache = IF Len(added) > gc.maxSize THEN Tail(added) ELSE added]

\* the cache after getGlyph(fontName, char, fontSize); throws: textToPoints throws
getGlyph(gc, fm, fontName, char, fontSize, throws) ==
  LET key == getCacheKey(fontName, char, fontSize)
  IN  IF key \in SeqRange(gc.cache)
      THEN [gc EXCEPT !.stats.hits = @ + 1, !.cache = Append(Without(gc.cache, key), key)]
      ELSE IF ~Has(fm.loadedFonts, fontName) \/ throws
      THEN [gc EXCEPT !.stats.misses = @ + 1]
      ELSE LET added == Append(gc.cache, key)
           IN  [gc EXCEPT !.stats.misses = @ + 1,
                          !.cache = IF Len(added) > gc.maxSize THEN Tail(added) ELSE added]

\* key.startsWith(`${fontName}|`)
invalidateFont(gc, fontName) ==
  [gc EXCEPT !.cache = SelectSeq(@, LAMBDA key : ~(key[1] = fontName /\ key[2] = "|"))]

\* key.split('|')[2] === String(fontSize)
invalidateFontSize(gc, fontSize) ==
  [gc EXCEPT !.cache = SelectSeq(@, LAMBDA key : Split(key)[3] # ToString(fontSize))]

clearGlyphCache(gc) == [gc EXCEPT !.cache = <<>>, !.stats = [hits |-> 0, misses |-> 0]]

\* caches of every size from 1 on; one font is loaded, the other is not
InitGlyphs ==
  /\ PARAMS = DefaultParams
  /\ width = 60
  /\ height = 60
  /\ time = 0
  /\ gridCache = <<>>
  /\ gridCacheId = 0
  /\ gridCacheKey = Null
  /\ spatialPhaseCacheKey = Null
  /\ needsRedraw = TRUE
  /\ isExporting = FALSE
  /\ currentItemsSet = FALSE
  /\ collisionStates = <<>>
  /\ collisions = <<>>
  /\ changes = 0
  /\ op = <<"init", <<>>>>
  /\ spatialHash = SpatialHash(HashCellSize(PARAMS), width * Px, height * Px)
  /\ customPresets = <<>>
  /\ detector = CollisionDetector
  /\ fontManager = [FontManager EXCEPT !.loadedFonts = MapSet(@, "Inter", 1)]
  /\ fontCalls = NoFontCalls
  /\ \E maxSize \in 1..MaxSizes : glyphCache = GlyphCache(maxSize)
  /\ mp4Export = NoExport

glyphUnchanged == <<PARAMS, width, height, time, gridCache, gridCacheId, gridCacheKey,
                    spatialPhaseCacheKey, needsRedraw, isExporting, currentItemsSet,
                    physicsVars, changes, spatialHash, customPresets, detector, fontManager,
                    fontCalls, mp4Export>>

GetGlyph ==
  /\ glyphCache.stats.hits + glyphCache.stats.misses < MaxLookups
  /\ \E fontName \in GlyphFonts, char \in GlyphChars, fontSize \in GlyphSizes,
        throws \in BOOLEAN :
       /\ glyphCache' = getGlyph(glyphCache, fontManager, fontName, char, fontSize, throws)
       /\ op' = <<"getGlyph", getCacheKey(fontName, char, fontSize)>>
  /\ UNCHANGED glyphUnchanged

InvalidateFont ==
  /\ \E fontName \in GlyphFonts : glyphCache' = invalidateFont(glyphCache, fontName)
  /\ op' = <<"invalidateFont", <<>>>>
  /\ UNCHANGED glyphUnchanged

InvalidateFontSize ==
  /\ \E fontSize \in GlyphSizes : glyphCache' = invalidateFontSize(glyphCache, fontSize)
  /\ op' = <<"invalidateFontSize", <<>>>>
  /\ UNCHANGED glyphUnchanged

ClearGlyphCache ==
  /\ glyphCache' = clearGlyphCache(glyphCache)
  /\ op' = <<"clear", <<>>>>
  /\ UNCHANGED glyphUnchanged

NextGlyphs == GetGlyph \/ InvalidateFont \/ InvalidateFontSize \/ ClearGlyphCache

SpecGlyphs == InitGlyphs /\ [][NextGlyphs]_vars

Position(cache, key) == CHOOSE k \in 1..Len(cache) : cache[k] = key

\* the keys two caches share stand in the same order in both
SameOrder(before, after, keys) ==
  \A a, b \in keys :
    Position(before, a) < Position(before, b) => Position(after, a) < Position(after, b)

\* C30: after every getGlyph, invalidateFont, invalidateFontSize and clear
\* the cache holds at most maxSize entries; the keys stand in the order of
\* their last use (a hit moves its key behind all others, an insertion adds
\* its key behind all others, nothing else reorders), and an insertion into
\* a full cache evicts exactly the key used longest ago, never the key just
\* inserted
C30_BoundedAndEvictsLeastRecentlyUsed ==
  [][/\ Len(glyphCache'.cache) <= glyphCache'.maxSize
     /\ NoDuplicates(glyphCache'.cache)
     /\ SameOrder(glyphCache.cache, glyphCache'.cache,
                  (SeqRange(glyphCache.cache) \cap SeqRange(glyphCache'.cache))
                    \ (IF op'[1] = "getGlyph" THEN {op'[2]} ELSE {}))
     /\ SeqRange(glyphCache'.cache) \subseteq
          SeqRange(glyphCache.cache) \cup (IF op'[1] = "getGlyph" THEN {op'[2]} ELSE {})
     /\ op'[1] = "getGlyph" =>
          /\ op'[2] \in SeqRange(glyphCache.cache) =>
               SeqRange(glyphCache'.cache) = SeqRange(glyphCache.cache)
          /\ op'[2] \in SeqRange(glyphCache'.cache) =>
               glyphCache'.cache[Len(glyphCache'.cache)] = op'[2]
          /\ SeqRange(glyphCache.cache) \ SeqRange(glyphCache'.cache) \subseteq
               (IF Len(glyphCache.cache) = glyphCache.maxSize
                   /\ op'[2] \notin SeqRange(glyphCache.cache)
                   /\ op'[2] \in SeqRange(glyphCache'.cache)
                THEN {glyphCache.cache[1]} ELSE {})]_vars

\* a cache of two entries after one hit and three misses, the last lookup
\* having placed the key of the character '|' behind the other key
C30_Witness ==
  /\ op[1] = "getGlyph"
  /\ glyphCache.maxSize = 2
  /\ glyphCache.stats = [hits |-> 1, misses |-> 3]
  /\ glyphCache.cache = <<getCacheKey("Inter", "a", 20), getCacheKey("Inter", "|", 40)>>

====
